---- MODULE Spec2Model ----
(***************************************************************************)
(* Model of the asynchronous I/O core of libfilezilla: the buffer pool and *)
(* its leases, the aio_waitable / aio_waiter signalling protocol, and the  *)
(* readers and writers built on them.                                      *)
(*                                                                         *)
(* SpecPool : the pool and the waitable protocol driven by threads that    *)
(*            take, move and release leases and register and withdraw      *)
(*            waiters (src/lib/aio/aio.cpp).                               *)
(***************************************************************************)
EXTENDS Integers, Sequences, FiniteSets, TLC

(***************************************************************************)
(* Bounds of the model.                                                    *)
(***************************************************************************)
\* aio_buffer_pool constructor argument buffer_count
BufferCount == 2
\* threads that call into the pool in SpecPool
NumThreads == 2
\* buffer_lease objects that exist in SpecPool
NumLeases == 3
\* events the event loop's queue holds at most
MaxEvents == 1

\* reader_factory::min_buffer_usage and writer_factory::min_buffer_usage
min_buffer_usage == 1

\* bytes a pool buffer holds (aio_buffer_pool constructor argument buffer_size)
BufferSize == 2
\* bytes in the source file when the reader is opened
FileSize == 4
\* max_buffers of the reader and of the writer
ReaderMaxBuffers == 1
WriterMaxBuffers == 2
\* rounds of the client's handler loop per event (10 in src/demos/aio.cpp)
HandlerIterations == 2
\* seek calls the client makes
MaxSeeks == 2
\* width of the offset type (64 in the code)
OffsetBits == 4

\* aio_base::nosize: the largest value of the offset type
nosize == 2^OffsetBits - 1

NULL == "null"

PoolThreads == 1..NumThreads
Slots == 1..NumLeases
Buffers == 1..BufferCount
\* aio_waiter objects and event_handler objects that wait on the pool
RawWaiters == {"w1", "w2"}
Handlers == {"h1", "h2"}
\* the handler that takes part in SpecPool
PoolHandlers == {"h1"}
\* the threads of the pipeline: the client's event loop and the two workers
PipeThreads == {"client", "rworker", "wworker"}
\* the reader as aio_waiter of the pool, the client as event_handler
ReaderWaiter == "w1"
ClientHandler == "h1"

VARIABLES
    \* aio_buffer_pool::buffers_ : the free list
    buffers_,
    \* aio_waitable::waiting_ , waiting_handlers_ , active_signalling_ (of the pool)
    waiting_, waiting_handlers_, active_signalling_,
    \* the event loop's queue of pending events: records [h, type, w]
    events,
    \* per thread: program counter and the locals of the call in progress
    th,
    \* the buffer_lease objects: [pool |-> pool_ # nullptr, buf |-> the buffer]
    leases,
    \* per waiter/handler: "idle", "registering" (between the free-list check and
    \* add_waiter), "waiting" (get_buffer returned an empty lease), "notified"
    wstate,
    \* waiters/handlers for which remove_waiter has returned (until they register again)
    removed,
    \* handlers whose last remove_waiter took an event out of the loop's queue
    purged,
    \* an availability event of the pool was delivered to a handler in removed
    staleDelivery,
    \* the reader: the fields of reader_base / threaded_reader / file_reader
    reader,
    \* the writer: the fields of writer_base / threaded_writer / file_writer
    writer,
    \* the locals of the reader's worker (file_reader::entry) and of the
    \* writer's worker (file_writer::entry)
    rw, ww,
    \* the client: the handler that drives reader and writer
    cl,
    \* the bytes handed out by get_buffer since the reader was last positioned,
    \* and the bytes of the buffers add_buffer took into the writer's queue
    delivered, accepted,
    \* the environment: whether file operations may fail, the source's true length
    env,
    \* the factory holders and the factory objects they own
    holders,
    \* an ascii_layer, what was written to it and what its next layer received
    ascii,
    \* the last call of get_ipv6_long_form: its argument and its result
    ip,
    \* the file_reader objects made from one file by the two constructors
    made

poolVars == <<buffers_, waiting_, waiting_handlers_, active_signalling_, events>>
vars == <<buffers_, waiting_, waiting_handlers_, active_signalling_, events,
          th, leases, wstate, removed, purged, staleDelivery,
          reader, writer, rw, ww, cl, delivered, accepted, env, holders, ascii, ip, made>>
pipeVars == <<reader, writer, rw, ww, cl, delivered, accepted, env, holders, ascii, ip, made>>

(***************************************************************************)
(* Helpers on sequences.                                                   *)
(***************************************************************************)
Back(s) == s[Len(s)]
PopBack(s) == SubSeq(s, 1, Len(s) - 1)
Range(s) == {s[i] : i \in 1..Len(s)}
\* std::remove + erase: every occurrence of x leaves the vector, order kept
Erase(s, x) == SelectSeq(s, LAMBDA e : e # x)

\* reader_factory_holder / writer_factory_holder objects of the program
NumHolders == 3
HolderIds == 1..NumHolders
\* factory objects allocated at most (by the constructors and by clone)
MaxFactories == 4
\* what a factory describes: the name of its file or of its data
FactoryNames == {"a", "b"}

\* no holder constructed, no factory object allocated. alive: the holders
\* that exist; impl_[h]: the factory object holder h owns, 0 for nullptr;
\* factories[i]: the name of factory object i; last: the operation made last
NoHolders == [alive |-> {}, impl_ |-> [h \in HolderIds |-> 0], factories |-> <<>>,
              last |-> <<"none", 0, 0>>]
\* no file has been opened and no file_reader constructed
NoReaders == [step |-> "none"]
\* get_ipv6_long_form has not been called; strings are sequences of
\* characters
NoAddress == [calls |-> 0, in |-> <<>>, out |-> <<>>]
\* the member initialisers of ascii_layer, nothing written yet. input: the
\* bytes of the write calls that returned their size; wire: the bytes the next
\* layer took; failed: the socket has reported an error; last: the call or
\* event handled last and its result
FreshLayer == [buffer_ |-> <<>>, was_cr_ |-> FALSE, write_blocked_by_send_buffer_ |-> FALSE,
               input |-> <<>>, wire |-> <<>>, failed |-> FALSE,
               last |-> <<"none", "none">>]

IdleLocals == [pc |-> "idle", w |-> NULL, popped |-> NULL, cb |-> NULL,
               slot |-> 0, src |-> 0, n |-> 0, had |-> FALSE]
EmptyLease == [pool |-> FALSE, buf |-> 0]

\* the process died: a virtual call through a null active_signalling_
Crashed == \E t \in DOMAIN th : th[t].pc = "crashed"

\* a lease object some thread is in the middle of an operation on
Busy(s) == \E t \in DOMAIN th : th[t].pc # "idle" /\ (th[t].slot = s \/ th[t].src = s)
\* a thread is inside aio_buffer_pool::release (push done, signal_availibility running)
InRelease(t) == th[t].pc \in {"sig_begin", "sig_call", "sig_cb", "sig_end", "rel_end"}

(***************************************************************************)
(* aio_buffer_pool::get_buffer(aio_waiter&)                                *)
(***************************************************************************)
FreeListKeepsBuffer == buffers_

\* line 291 (and 307): buffers_.pop_back() after the lease was built from back()
FreeListAfterGet == PopBack(buffers_)

\* lines 284-292: under mtx_, either take the last free buffer or, with the
\* free list empty, drop mtx_ (l.unlock()) and go on to add_waiter
GetBuffer(t, s, w) ==
    /\ th[t].pc = "idle"
    /\ ~leases[s].pool /\ ~Busy(s)
    /\ wstate[w] \in {"idle", "notified"}
    /\ removed' = removed \ {w}
    /\ IF buffers_ = <<>>
       THEN /\ th' = [th EXCEPT ![t] = [IdleLocals EXCEPT !.pc = "gb_add", !.w = w]]
            /\ wstate' = [wstate EXCEPT ![w] = "registering"]
            /\ UNCHANGED <<buffers_, leases>>
       ELSE /\ leases' = [leases EXCEPT ![s] = [pool |-> TRUE, buf |-> Back(buffers_)]]
            /\ buffers_' = FreeListAfterGet
            /\ wstate' = [wstate EXCEPT ![w] = "idle"]
            /\ UNCHANGED th
    /\ UNCHANGED <<waiting_, waiting_handlers_, active_signalling_, events,
                   purged, staleDelivery>>
    /\ UNCHANGED pipeVars

\* line 287 with lines 58-62: add_waiter(h) under m_, after mtx_ was dropped
GetBufferAddWaiter(t) ==
    /\ th[t].pc = "gb_add"
    /\ waiting_' = Append(waiting_, th[t].w)
    /\ wstate' = [wstate EXCEPT ![th[t].w] = "waiting"]
    /\ th' = [th EXCEPT ![t] = IdleLocals]
    /\ UNCHANGED <<buffers_, waiting_handlers_, active_signalling_, events, leases,
                   removed, purged, staleDelivery>>
    /\ UNCHANGED pipeVars

(***************************************************************************)
(* aio_buffer_pool::get_buffer(event_handler&)                             *)
(***************************************************************************)
PoolEvent(h) == [h |-> h, type |-> "aio", w |-> "pool"]

GetBufferHandler(t, s, h) ==
    /\ th[t].pc = "idle"
    /\ ~leases[s].pool /\ ~Busy(s)
    /\ wstate[h] \in {"idle", "notified"}
    \* the handler acts on its event: it is not called again before delivery
    /\ PoolEvent(h) \notin Range(events)
    /\ removed' = removed \ {h}
    /\ purged' = purged \ {h}
    /\ IF buffers_ = <<>>
       THEN /\ th' = [th EXCEPT ![t] = [IdleLocals EXCEPT !.pc = "gbh_add", !.w = h]]
            /\ wstate' = [wstate EXCEPT ![h] = "registering"]
            /\ UNCHANGED <<buffers_, leases>>
       ELSE /\ leases' = [leases EXCEPT ![s] = [pool |-> TRUE, buf |-> Back(buffers_)]]
            /\ buffers_' = FreeListAfterGet
            /\ wstate' = [wstate EXCEPT ![h] = "idle"]
            /\ UNCHANGED th
    /\ UNCHANGED <<waiting_, waiting_handlers_, active_signalling_, events,
                   staleDelivery>>
    /\ UNCHANGED pipeVars

\* line 303 with lines 64-68
GetBufferHandlerAddWaiter(t) ==
    /\ th[t].pc = "gbh_add"
    /\ waiting_handlers_' = Append(waiting_handlers_, th[t].w)
    /\ wstate' = [wstate EXCEPT ![th[t].w] = "waiting"]
    /\ th' = [th EXCEPT ![t] = IdleLocals]
    /\ UNCHANGED <<buffers_, waiting_, active_signalling_, events, leases,
                   removed, purged, staleDelivery>>
    /\ UNCHANGED pipeVars

(***************************************************************************)
(* buffer_lease::release / ~buffer_lease and aio_buffer_pool::release      *)
(***************************************************************************)
\* buffer_lease::release with pool_ set: aio_buffer_pool::release lines 314-321
\* (clear the buffer, push it on the free list under mtx_); the call of
\* signal_availibility (line 323) follows in the Signal* steps
Release(t, s) ==
    /\ th[t].pc = "idle"
    /\ leases[s].pool /\ ~Busy(s)
    /\ buffers_' = Append(buffers_, leases[s].buf)
    /\ th' = [th EXCEPT ![t] = [IdleLocals EXCEPT !.pc = "sig_begin", !.slot = s]]
    /\ UNCHANGED <<waiting_, waiting_handlers_, active_signalling_, events, leases,
                   wstate, removed, purged, staleDelivery>>
    /\ UNCHANGED pipeVars

\* buffer_lease::operator=(buffer_lease&&): release() the target, then take over
\* pool_ and buffer_ of the source; nothing happens on self-assignment
MoveAssign(t, dst, src) ==
    /\ th[t].pc = "idle"
    /\ dst # src
    /\ ~Busy(dst) /\ ~Busy(src)
    /\ IF leases[dst].pool
       THEN /\ buffers_' = Append(buffers_, leases[dst].buf)
            /\ th' = [th EXCEPT ![t] = [IdleLocals EXCEPT !.pc = "sig_begin",
                                                         !.slot = dst, !.src = src]]
            /\ UNCHANGED leases
       ELSE /\ leases[src].pool
            /\ leases' = [leases EXCEPT ![dst] = leases[src], ![src] = EmptyLease]
            /\ UNCHANGED <<buffers_, th>>
    /\ UNCHANGED <<waiting_, waiting_handlers_, active_signalling_, events,
                   wstate, removed, purged, staleDelivery>>
    /\ UNCHANGED pipeVars

\* buffer_lease::release line 53 (pool_ = nullptr) once the pool's release has
\* returned; for a move assignment lines 42-44 follow
ReleaseEnd(t) ==
    /\ th[t].pc = "rel_end" /\ th[t].slot \in Slots
    /\ LET s == th[t].slot
           f == th[t].src
       IN  leases' = IF f = 0
                     THEN [leases EXCEPT ![s] = EmptyLease]
                     ELSE [leases EXCEPT ![s] = leases[f], ![f] = EmptyLease]
    /\ th' = [th EXCEPT ![t] = IdleLocals]
    /\ UNCHANGED <<buffers_, waiting_, waiting_handlers_, active_signalling_, events,
                   wstate, removed, purged, staleDelivery>>
    /\ UNCHANGED pipeVars

(***************************************************************************)
(* aio_waitable::signal_availibility                                       *)
(***************************************************************************)
WaitingCleared == <<>>

\* line 125: waiting_.pop_back()
WaitingAfterSignal == PopBack(waiting_)

\* lines 122-126 and 132-135: under m_, pop the last raw waiter into
\* active_signalling_ and drop m_; or, with no raw waiter, post an event to the
\* last handler and pop it
SignalBegin(t) ==
    /\ th[t].pc = "sig_begin"
    /\ IF waiting_ # <<>>
       THEN /\ active_signalling_' = Back(waiting_)
            /\ waiting_' = WaitingAfterSignal
            /\ th' = [th EXCEPT ![t].pc = "sig_call", ![t].popped = Back(waiting_),
                                ![t].had = TRUE]
            /\ UNCHANGED <<waiting_handlers_, events, wstate>>
       ELSE IF waiting_handlers_ # <<>>
       THEN /\ events' = Append(events, PoolEvent(Back(waiting_handlers_)))
            /\ waiting_handlers_' = PopBack(waiting_handlers_)
            /\ wstate' = [wstate EXCEPT ![Back(waiting_handlers_)] = "notified"]
            /\ th' = [th EXCEPT ![t].pc = "rel_end", ![t].n = th[t].n + 1,
                                ![t].had = TRUE]
            /\ UNCHANGED <<waiting_, active_signalling_>>
       ELSE /\ th' = [th EXCEPT ![t].pc = "rel_end"]
            /\ UNCHANGED <<waiting_, waiting_handlers_, active_signalling_, events, wstate>>
    /\ UNCHANGED <<buffers_, leases, removed, purged, staleDelivery>>
    /\ UNCHANGED pipeVars

\* line 127: active_signalling_->on_buffer_availability(this), evaluated after
\* m_ was dropped. The member is read without the lock while other threads
\* write it (lines 124, 129): the read yields the value this thread stored or
\* the value the member holds now; through a null pointer the call kills the
\* process.
SignalCall(t) ==
    /\ th[t].pc = "sig_call"
    /\ \E target \in {th[t].popped, active_signalling_} :
         IF target = NULL
         THEN /\ th' = [u \in DOMAIN th |-> [th[u] EXCEPT !.pc = "crashed"]]
              /\ UNCHANGED wstate
         ELSE /\ th' = [th EXCEPT ![t].pc = "sig_cb", ![t].cb = target,
                                  ![t].n = th[t].n + 1]
              /\ wstate' = [wstate EXCEPT ![target] =
                               IF @ = "waiting" THEN "notified" ELSE @]
    /\ UNCHANGED <<buffers_, waiting_, waiting_handlers_, active_signalling_, events,
                   leases, removed, purged, staleDelivery>>
    /\ UNCHANGED pipeVars

\* the waiter's on_buffer_availability returns
SignalCallbackReturn(t) ==
    /\ th[t].pc = "sig_cb"
    /\ th' = [th EXCEPT ![t].pc = "sig_end", ![t].cb = NULL]
    /\ UNCHANGED <<buffers_, waiting_, waiting_handlers_, active_signalling_, events,
                   leases, wstate, removed, purged, staleDelivery>>
    /\ UNCHANGED pipeVars

\* lines 128-130: relock, active_signalling_ = nullptr, return
SignalEnd(t) ==
    /\ th[t].pc = "sig_end"
    /\ active_signalling_' = NULL
    /\ th' = [th EXCEPT ![t].pc = "rel_end"]
    /\ UNCHANGED <<buffers_, waiting_, waiting_handlers_, events, leases, wstate,
                   removed, purged, staleDelivery>>
    /\ UNCHANGED pipeVars

(***************************************************************************)
(* aio_waitable::remove_waiter                                             *)
(***************************************************************************)
RemoveWaiterSpinsForAny(w) == active_signalling_ # NULL

\* line 73: while (active_signalling_ == &h)
RemoveWaiterSpins(w) == active_signalling_ = w

\* remove_waiter(aio_waiter&), lines 72-78: spins (unlock, yield, lock) while
\* active_signalling_ is the waiter, then erases it from waiting_
RemoveWaiter(t, w) ==
    /\ th[t].pc = "idle"
    /\ wstate[w] # "registering"
    /\ ~RemoveWaiterSpins(w)
    /\ waiting_' = Erase(waiting_, w)
    /\ removed' = removed \cup {w}
    /\ wstate' = [wstate EXCEPT ![w] = IF @ = "waiting" THEN "idle" ELSE @]
    /\ UNCHANGED <<buffers_, waiting_handlers_, active_signalling_, events, th, leases,
                   purged, staleDelivery>>
    /\ UNCHANGED pipeVars

event_filter_any_waitable(ev, h, w) == ev.h = h /\ ev.type = "aio"

\* remove_pending_events, lines 82-94: the filter matches the events addressed
\* to h whose type is aio_buffer_event and whose waitable is w
event_filter(ev, h, w) == ev.h = h /\ ev.type = "aio" /\ ev.w = w

\* event_loop::filter_events: the matching events leave the queue
filter_events(q, h, w) == SelectSeq(q, LAMBDA ev : ~event_filter(ev, h, w))

\* remove_waiter(event_handler&), lines 99-101, all under m_
RemoveWaiterHandler(t, h) ==
    /\ th[t].pc = "idle"
    /\ wstate[h] # "registering"
    /\ events' = filter_events(events, h, "pool")
    /\ waiting_handlers_' = Erase(waiting_handlers_, h)
    /\ removed' = removed \cup {h}
    /\ purged' = IF events' # events THEN purged \cup {h} ELSE purged \ {h}
    /\ wstate' = [wstate EXCEPT ![h] = IF @ = "waiting" THEN "idle" ELSE @]
    /\ UNCHANGED <<buffers_, waiting_, active_signalling_, th, leases,
                   staleDelivery>>
    /\ UNCHANGED pipeVars

(***************************************************************************)
(* The event loop                                                          *)
(***************************************************************************)
\* events that do not come from the pool: an aio_buffer_event carrying another
\* waitable (src/demos/aio.cpp line 95 sends one carrying nullptr) and events
\* of another type
OtherEvents == {[h |-> h, type |-> "aio", w |-> "other"] : h \in Handlers}
               \cup {[h |-> h, type |-> "timer", w |-> "other"] : h \in Handlers}

PostOther(ev) ==
    /\ ~Crashed
    /\ Len(events) < MaxEvents
    /\ events' = Append(events, ev)
    /\ UNCHANGED <<buffers_, waiting_, waiting_handlers_, active_signalling_, th, leases,
                   wstate, removed, purged, staleDelivery>>
    /\ UNCHANGED pipeVars

\* the loop takes the first pending event and hands it to its handler
Deliver ==
    /\ ~Crashed
    /\ events # <<>>
    /\ events' = Tail(events)
    /\ staleDelivery' = (staleDelivery \/
                          (Head(events) = PoolEvent(Head(events).h)
                             /\ Head(events).h \in removed))
    /\ UNCHANGED <<buffers_, waiting_, waiting_handlers_, active_signalling_, th, leases,
                   wstate, removed, purged>>
    /\ UNCHANGED pipeVars

(***************************************************************************)
(* reader_base: construction and seek                                      *)
(***************************************************************************)
Wrap(x) == x % (nosize + 1)
Min(a, b) == IF a < b THEN a ELSE b

NoLease == [id |-> 0, off |-> 0, len |-> 0]
\* the bytes a buffer holds, as offsets into the source
Bytes(b) == [i \in 1..b.len |-> Wrap(b.off + i - 1)]

\* signal_availibility of a reader or writer, whose waiters are event
\* handlers: lines 132-135, the last handler gets an event and is popped
HandlersAfterSignal(hs) == IF hs = <<>> THEN hs ELSE PopBack(hs)
EventsAfterSignal(hs, q, w) ==
    IF hs = <<>> THEN q ELSE Append(q, [h |-> Back(hs), type |-> "aio", w |-> w])

\* the member initialisers of reader_base and threaded_reader; file_ is the
\* read position of the source file
FreshReader(kind, max_size) ==
    [kind |-> kind, mtx_ |-> "free", buffers_ |-> <<>>,
     size_ |-> nosize, max_size_ |-> max_size, start_offset_ |-> nosize,
     remaining_ |-> nosize, get_buffer_called_ |-> FALSE, error_ |-> FALSE,
     eof_ |-> FALSE, quit_ |-> FALSE, signalled_ |-> FALSE,
     waiting_handlers_ |-> <<>>, file_ |-> 0]

\* reader_base::seek lines 26-31: a nosize offset keeps the offset
SeekOffset(r, offset) ==
    IF offset = nosize
    THEN (IF r.start_offset_ = nosize THEN 0 ELSE r.start_offset_)
    ELSE offset
\* lines 28-30: a nosize size with a nosize offset keeps the size
SeekSize(r, offset, size) ==
    IF offset = nosize /\ size = nosize THEN r.size_ ELSE size

SeekRangeUnchecked(r, o, s) == ~(s # nosize /\ nosize - s <= o)

\* lines 33-40
SeekRangeOk(r, o, s) ==
    /\ ~(s # nosize /\ nosize - s <= o)
    /\ ~(s # nosize /\ o + s > r.max_size_)

\* lines 49-68
SeekChange(r, o, s) ==
    \/ r.get_buffer_called_
    \/ o # r.start_offset_
    \/ IF s = nosize THEN Wrap(o + r.size_) # r.max_size_ ELSE s # r.size_

\* file_reader::seekable; a view_reader is always seekable
seekable(r) == r.kind = "view" \/ r.max_size_ # nosize

\* lines 75-80
SeekAllowed(r, o) == seekable(r) \/ (r.start_offset_ = nosize /\ o = 0)

\* lines 87-99
SeekFields(r, o, s) ==
    LET sz == IF s # nosize THEN s
              ELSE IF r.max_size_ # nosize THEN Wrap(r.max_size_ + nosize + 1 - o)
              ELSE nosize
    IN  [r EXCEPT !.start_offset_ = o, !.size_ = sz, !.remaining_ = sz,
                  !.eof_ = (sz = 0), !.get_buffer_called_ = FALSE]

\* file_reader constructor: max_size_ from the file's size, then seek(offset,
\* size) on the fresh reader; file_reader_factory::open returns no reader
\* when that fails
FileReaderOpens(max_size, offset, size) ==
    LET r == FreshReader("file", max_size)
        o == SeekOffset(r, offset)
        s == SeekSize(r, offset, size)
    IN  SeekRangeOk(r, o, s) /\ SeekAllowed(r, o)
OpenFileReader(max_size, offset, size) ==
    LET r == FreshReader("file", max_size)
        o == SeekOffset(r, offset)
        s == SeekSize(r, offset, size)
        f == SeekFields(r, o, s)
    IN  [f EXCEPT !.file_ = f.start_offset_]

\* view_reader constructor and view_reader_factory::open: start_offset_ is
\* left as initialised; seek is called only for a non-default offset or size
ViewReaderOpens(len, offset, size) ==
    LET r == [FreshReader("view", len) EXCEPT !.size_ = len]
        o == SeekOffset(r, offset)
        s == SeekSize(r, offset, size)
    IN  (offset = 0 /\ size = nosize) \/ SeekRangeOk(r, o, s)
OpenViewReader(len, offset, size) ==
    LET r == [FreshReader("view", len) EXCEPT !.size_ = len, !.remaining_ = len,
                                               !.eof_ = (len = 0)]
        o == SeekOffset(r, offset)
        s == SeekSize(r, offset, size)
    IN  IF offset = 0 /\ size = nosize THEN r ELSE SeekFields(r, o, s)

(***************************************************************************)
(* file_reader::entry, the reader's worker                                 *)
(***************************************************************************)
\* condition::wait with the mutex held: it returns at once when the
\* condition was signalled, otherwise the mutex is dropped and the thread parks
CondWait(o) ==
    IF o.signalled_ THEN [o EXCEPT !.signalled_ = FALSE] ELSE [o EXCEPT !.mtx_ = "free"]
CondWaitPc(o) == IF o.signalled_ THEN "loop" ELSE "wait"

ReaderNeverFull == FALSE

\* line 307
ReaderFull == Len(reader.buffers_) = ReaderMaxBuffers

\* line 305: the worker starts by taking mtx_
EntryStart ==
    /\ ~Crashed
    /\ rw.pc = "start" /\ reader.mtx_ = "free"
    /\ reader' = [reader EXCEPT !.mtx_ = "rworker"]
    /\ rw' = [rw EXCEPT !.pc = "loop"]
    /\ UNCHANGED <<poolVars, th, leases, wstate, removed, purged, staleDelivery,
                   writer, ww, cl, delivered, accepted, env, holders, ascii, ip, made>>

\* lines 306-315, mtx_ held: leave on quit_ or error_; wait while the queue is
\* full; otherwise aio_buffer_pool::get_buffer(*this), lines 284-292, which
\* with an empty free list drops the pool's mutex and goes on to add_waiter
EntryLoop ==
    /\ ~Crashed
    /\ rw.pc = "loop"
    /\ IF reader.quit_ \/ reader.error_
       THEN /\ reader' = [reader EXCEPT !.mtx_ = "free"]
            /\ rw' = [rw EXCEPT !.pc = "done"]
            /\ UNCHANGED <<buffers_, th, wstate, removed>>
       ELSE IF ReaderFull
       THEN /\ reader' = CondWait(reader)
            /\ rw' = [rw EXCEPT !.pc = CondWaitPc(reader)]
            /\ UNCHANGED <<buffers_, th, wstate, removed>>
       ELSE IF buffers_ = <<>>
       THEN /\ th' = [th EXCEPT !["rworker"] =
                         [IdleLocals EXCEPT !.pc = "gb_add", !.w = ReaderWaiter]]
            /\ wstate' = [wstate EXCEPT ![ReaderWaiter] = "registering"]
            /\ removed' = removed \ {ReaderWaiter}
            /\ rw' = [rw EXCEPT !.pc = "pool_none"]
            /\ UNCHANGED <<buffers_, reader>>
       ELSE /\ buffers_' = FreeListAfterGet
            /\ wstate' = [wstate EXCEPT ![ReaderWaiter] = "idle"]
            /\ removed' = removed \ {ReaderWaiter}
            \* line 317: the buffer is empty, the mutex is dropped for the read
            /\ rw' = [pc |-> "read",
                      b |-> [id |-> Back(buffers_), off |-> reader.file_, len |-> 0]]
            /\ reader' = [reader EXCEPT !.mtx_ = "free"]
            /\ UNCHANGED th
    /\ UNCHANGED <<waiting_, waiting_handlers_, active_signalling_, events, leases,
                   purged, staleDelivery, writer, ww, cl, delivered, accepted, env, holders, ascii, ip, made>>

\* lines 312-314: get_buffer returned an empty lease, the worker waits
EntryWaitPool ==
    /\ ~Crashed
    /\ rw.pc = "pool_none" /\ th["rworker"].pc = "idle"
    /\ reader' = CondWait(reader)
    /\ rw' = [rw EXCEPT !.pc = CondWaitPc(reader)]
    /\ UNCHANGED <<poolVars, th, leases, wstate, removed, purged, staleDelivery,
                   writer, ww, cl, delivered, accepted, env, holders, ascii, ip, made>>

\* cond_.wait returns: the condition was signalled and mtx_ is taken again
EntryWake ==
    /\ ~Crashed
    /\ rw.pc = "wait" /\ reader.signalled_ /\ reader.mtx_ = "free"
    /\ reader' = [reader EXCEPT !.signalled_ = FALSE, !.mtx_ = "rworker"]
    /\ rw' = [rw EXCEPT !.pc = "loop"]
    /\ UNCHANGED <<poolVars, th, leases, wstate, removed, purged, staleDelivery,
                   writer, ww, cl, delivered, accepted, env, holders, ascii, ip, made>>

\* file::read of to_read bytes at the file's position: a positive count up to
\* what the source still has, 0 at its end, -1 on failure
ReadResults(to_read) ==
    IF to_read = 0 THEN {0}
    ELSE LET avail == IF env.src_len > reader.file_ THEN env.src_len - reader.file_ ELSE 0
         IN  (IF avail = 0 THEN {0} ELSE 1..Min(to_read, avail))
               \cup (IF env.faults THEN {-1} ELSE {})

ShortReadIsEof(remaining) == FALSE

\* line 332: a read of 0 bytes while bytes of a bounded range are still owed
ShortReadIsError(remaining) == remaining # 0 /\ remaining # nosize

\* lines 346-355 for the buffer b with the reader's fields rd, mtx_ held: a
\* non-empty buffer joins the queue (the first one signals the reader's
\* waiters); at eof or error with an empty queue the waiters are signalled
\* and the worker leaves; an empty buffer goes back to the pool
\* (aio_buffer_pool::release lines 314-321) when b goes out of scope
EntryTail(rd, b) ==
    IF b.len > 0
    THEN /\ reader' = [rd EXCEPT !.mtx_ = "rworker", !.buffers_ = Append(@, b),
                                 !.waiting_handlers_ =
                                     IF rd.buffers_ = <<>> THEN HandlersAfterSignal(@) ELSE @]
         /\ events' = IF rd.buffers_ = <<>>
                      THEN EventsAfterSignal(rd.waiting_handlers_, events, "reader")
                      ELSE events
         /\ rw' = [pc |-> "loop", b |-> NoLease]
         /\ UNCHANGED <<buffers_, th>>
    ELSE LET brk == (rd.eof_ \/ rd.error_) /\ ~rd.quit_ /\ rd.buffers_ = <<>>
         IN  /\ reader' = [rd EXCEPT !.mtx_ = "rworker",
                                     !.waiting_handlers_ =
                                         IF brk THEN HandlersAfterSignal(@) ELSE @]
             /\ events' = IF brk
                          THEN EventsAfterSignal(rd.waiting_handlers_, events, "reader")
                          ELSE events
             /\ buffers_' = Append(buffers_, b.id)
             /\ th' = [th EXCEPT !["rworker"] = [IdleLocals EXCEPT !.pc = "sig_begin"]]
             /\ rw' = [pc |-> IF brk THEN "exit" ELSE "iter_end", b |-> NoLease]

\* lines 318-344: the read without the mutex, then under mtx_ again: return
\* on quit_ or error_ (b is released); a failed read sets error_; a read of 0
\* bytes sets error_ if bytes of a bounded range are still owed, else eof_;
\* otherwise the bytes are added and the loop goes on until b is full
EntryRead ==
    /\ ~Crashed
    /\ rw.pc = "read" /\ reader.mtx_ = "free"
    /\ LET room == BufferSize - rw.b.len
           to_read == IF reader.remaining_ # nosize /\ room > reader.remaining_
                      THEN reader.remaining_ ELSE room
       IN \E r \in ReadResults(to_read) :
            LET rd == [reader EXCEPT !.file_ = IF r > 0 THEN @ + r ELSE @]
            IN  IF rd.quit_ \/ rd.error_
                THEN /\ reader' = [rd EXCEPT !.mtx_ = "rworker"]
                     /\ buffers_' = Append(buffers_, rw.b.id)
                     /\ th' = [th EXCEPT !["rworker"] = [IdleLocals EXCEPT !.pc = "sig_begin"]]
                     /\ rw' = [pc |-> "exit", b |-> NoLease]
                     /\ UNCHANGED events
                ELSE IF r < 0
                THEN EntryTail([rd EXCEPT !.error_ = TRUE], rw.b)
                ELSE IF r = 0
                THEN IF ShortReadIsError(rd.remaining_)
                     THEN EntryTail([rd EXCEPT !.error_ = TRUE], rw.b)
                     ELSE EntryTail([rd EXCEPT !.eof_ = TRUE], rw.b)
                ELSE LET b2 == [rw.b EXCEPT !.len = @ + r]
                         rd2 == [rd EXCEPT !.remaining_ = IF @ # nosize THEN @ - r ELSE @]
                     IN  IF b2.len < BufferSize
                         THEN /\ reader' = rd2
                              /\ rw' = [rw EXCEPT !.b = b2]
                              /\ UNCHANGED <<buffers_, th, events>>
                         ELSE EntryTail(rd2, b2)
    /\ UNCHANGED <<waiting_, waiting_handlers_, active_signalling_, leases, wstate,
                   removed, purged, staleDelivery, writer, ww, cl, delivered, accepted, env, holders, ascii, ip, made>>

\* the lease of the iteration is gone (buffer_lease::release has returned):
\* next round of the loop, or the worker leaves and drops mtx_
EntryAfterRelease ==
    /\ rw.pc \in {"iter_end", "exit"} /\ th["rworker"].pc = "rel_end"
    /\ th' = [th EXCEPT !["rworker"] = IdleLocals]
    /\ IF rw.pc = "iter_end"
       THEN /\ rw' = [rw EXCEPT !.pc = "loop"]
            /\ UNCHANGED reader
       ELSE /\ rw' = [rw EXCEPT !.pc = "done"]
            /\ reader' = [reader EXCEPT !.mtx_ = "free"]
    /\ UNCHANGED <<poolVars, leases, wstate, removed, purged, staleDelivery,
                   writer, ww, cl, delivered, accepted, env, holders, ascii, ip, made>>

\* the callback the pool makes at line 127. file_reader::on_buffer_availability
\* (lines 297-301) takes mtx_ and signals the worker's condition;
\* view_reader::on_buffer_availability (lines 453-456) signals the reader's
\* own waiters
OnBufferAvailability(t) ==
    /\ th[t].pc = "sig_cb"
    /\ IF reader.kind = "file"
       THEN /\ reader.mtx_ \in {"free", t}
            /\ reader' = [reader EXCEPT !.signalled_ = TRUE]
            /\ UNCHANGED events
       ELSE /\ reader' = [reader EXCEPT !.waiting_handlers_ = HandlersAfterSignal(@)]
            /\ events' = EventsAfterSignal(reader.waiting_handlers_, events, "reader")
    /\ th' = [th EXCEPT ![t].pc = "sig_end", ![t].cb = NULL]
    /\ UNCHANGED <<buffers_, waiting_, waiting_handlers_, active_signalling_, leases,
                   wstate, removed, purged, staleDelivery, writer, rw, ww, cl,
                   delivered, accepted, env, holders, ascii, ip, made>>

(***************************************************************************)
(* file_writer::entry, the writer's worker                                 *)
(***************************************************************************)
\* the member initialisers of writer_base and file_writer; file_ is the
\* sequence of bytes written to the target, synced_ whether fsync succeeded.
\* The target itself: offset_ is the position the file was opened at (the
\* file position is offset_ plus the bytes written), open_ whether file_ is
\* an open file, present_ whether the file exists on disk, alloc_ the end of
\* the space preallocate reserved, mtime_ whether a modification time was
\* set on the file, progress the sum of the byte counts progress_cb_ was
\* called with
FreshWriter(fsync) ==
    [mtx_ |-> "free", buffers_ |-> <<>>, error_ |-> FALSE, finalizing_ |-> 0,
     quit_ |-> FALSE, signalled_ |-> FALSE, waiting_handlers_ |-> <<>>,
     fsync_ |-> fsync, file_ |-> <<>>, synced_ |-> FALSE,
     offset_ |-> 0, open_ |-> TRUE, present_ |-> TRUE, preallocated_ |-> FALSE,
     alloc_ |-> 0, mtime_ |-> FALSE, progress |-> 0]

\* file::position of the writer's file
Position(wr) == wr.offset_ + Len(wr.file_)

\* line 237
WriterEntryStart ==
    /\ ~Crashed
    /\ ww.pc = "start" /\ writer.mtx_ = "free"
    /\ writer' = [writer EXCEPT !.mtx_ = "wworker"]
    /\ ww' = [ww EXCEPT !.pc = "loop"]
    /\ UNCHANGED <<poolVars, th, leases, wstate, removed, purged, staleDelivery,
                   reader, rw, cl, delivered, accepted, env, holders, ascii, ip, made>>

\* file::fsync
FsyncResults == IF env.faults THEN BOOLEAN ELSE {TRUE}

\* lines 238-257, mtx_ held: leave on quit_ or error_; with an empty queue
\* either complete a requested finalize (fsync under the mutex, signal the
\* waiters, leave) or wait; with a buffer queued drop mtx_ for the write
WriterEntryLoop ==
    /\ ~Crashed
    /\ ww.pc = "loop"
    /\ IF writer.quit_ \/ writer.error_
       THEN /\ writer' = [writer EXCEPT !.mtx_ = "free"]
            /\ ww' = [ww EXCEPT !.pc = "done"]
            /\ UNCHANGED events
       ELSE IF writer.buffers_ = <<>>
       THEN IF writer.finalizing_ = 1
            THEN \E ok \in (IF writer.fsync_ THEN FsyncResults ELSE {TRUE}) :
                   /\ writer' = [writer EXCEPT !.finalizing_ = 2, !.error_ = ~ok,
                                               !.synced_ = writer.fsync_ /\ ok,
                                               !.waiting_handlers_ = HandlersAfterSignal(@),
                                               !.mtx_ = "free"]
                   /\ events' = EventsAfterSignal(writer.waiting_handlers_, events, "writer")
                   /\ ww' = [ww EXCEPT !.pc = "done"]
            ELSE /\ writer' = CondWait(writer)
                 /\ ww' = [ww EXCEPT !.pc = CondWaitPc(writer)]
                 /\ UNCHANGED events
       ELSE /\ writer' = [writer EXCEPT !.mtx_ = "free"]
            /\ ww' = [ww EXCEPT !.pc = "write"]
            /\ UNCHANGED events
    /\ UNCHANGED <<buffers_, waiting_, waiting_handlers_, active_signalling_, th, leases,
                   wstate, removed, purged, staleDelivery, reader, rw, cl, delivered,
                   accepted, env, holders, ascii, ip, made>>

WriterEntryWake ==
    /\ ~Crashed
    /\ ww.pc = "wait" /\ writer.signalled_ /\ writer.mtx_ = "free"
    /\ writer' = [writer EXCEPT !.signalled_ = FALSE, !.mtx_ = "wworker"]
    /\ ww' = [ww EXCEPT !.pc = "loop"]
    /\ UNCHANGED <<poolVars, th, leases, wstate, removed, purged, staleDelivery,
                   reader, rw, cl, delivered, accepted, env, holders, ascii, ip, made>>

\* file::write of a buffer holding len bytes: a positive count, or 0 on failure
WriteResults(len) == (1..len) \cup (IF env.faults THEN {0} ELSE {})

\* lines 269-271: progress_cb_(this, written); the callback adds the count to
\* its sum
ProgressCb(wr, written) == [wr EXCEPT !.progress = @ + written]

\* lines 258-276: the write without the mutex, then under mtx_ again: return
\* on quit_ or error_; a write of no bytes sets error_ and the worker leaves;
\* otherwise the bytes are consumed and reported to the progress callback, and
\* a buffer written out completely is erased from the queue: its lease goes
\* back to the pool (aio_buffer_pool::release lines 314-321)
WriterEntryWrite ==
    /\ ~Crashed
    /\ ww.pc = "write" /\ writer.mtx_ = "free"
    /\ LET b == Head(writer.buffers_)
       IN \E written \in WriteResults(b.len) :
            LET wr == [writer EXCEPT !.file_ = @ \o SubSeq(Bytes(b), 1, written)]
                b2 == [b EXCEPT !.off = Wrap(@ + written), !.len = @ - written]
            IN  IF wr.quit_ \/ wr.error_
                THEN /\ writer' = wr
                     /\ ww' = [ww EXCEPT !.pc = "done"]
                     /\ UNCHANGED <<buffers_, th>>
                ELSE IF written <= 0
                THEN /\ writer' = [wr EXCEPT !.error_ = TRUE]
                     /\ ww' = [ww EXCEPT !.pc = "done"]
                     /\ UNCHANGED <<buffers_, th>>
                ELSE IF b2.len > 0
                THEN /\ writer' = [ProgressCb(wr, written) EXCEPT
                                       !.buffers_ = <<b2>> \o Tail(@)]
                     /\ UNCHANGED <<ww, buffers_, th>>
                ELSE /\ writer' = [ProgressCb(wr, written) EXCEPT
                                       !.buffers_ = Tail(@), !.mtx_ = "wworker"]
                     /\ ww' = [pc |-> "erased",
                               signal |-> Len(writer.buffers_) = WriterMaxBuffers]
                     /\ buffers_' = Append(buffers_, b.id)
                     /\ th' = [th EXCEPT !["wworker"] = [IdleLocals EXCEPT !.pc = "sig_begin"]]
    /\ UNCHANGED <<waiting_, waiting_handlers_, active_signalling_, events, leases,
                   wstate, removed, purged, staleDelivery, reader, rw, cl, delivered,
                   accepted, env, holders, ascii, ip, made>>

\* lines 274-276 once the erased lease is released: signal the writer's
\* waiters if the queue was full
WriterEntryAfterErase ==
    /\ ww.pc = "erased" /\ th["wworker"].pc = "rel_end"
    /\ th' = [th EXCEPT !["wworker"] = IdleLocals]
    /\ writer' = [writer EXCEPT !.waiting_handlers_ =
                                    IF ww.signal THEN HandlersAfterSignal(@) ELSE @]
    /\ events' = IF ww.signal
                 THEN EventsAfterSignal(writer.waiting_handlers_, events, "writer")
                 ELSE events
    /\ ww' = [pc |-> "loop", signal |-> FALSE]
    /\ UNCHANGED <<buffers_, waiting_, waiting_handlers_, active_signalling_, leases,
                   wstate, removed, purged, staleDelivery, reader, rw, cl, delivered,
                   accepted, env, holders, ascii, ip, made>>

(***************************************************************************)
(* The client: worker::operator() of src/demos/aio.cpp                     *)
(***************************************************************************)
\* eos: how often get_buffer has returned ok with no lease since the reader
\* was positioned (0, 1, or 2 for more than once)
IdleClient == [pc |-> "idle", i |-> 0, b |-> NoLease, held |-> <<>>, back |-> "idle",
               ret |-> [op |-> "none", res |-> "none", k |-> 0], seeks |-> 0,
               arg |-> <<0, 0>>, n |-> 0, success_ |-> FALSE, late |-> FALSE,
               again |-> FALSE, req |-> <<0, 0>>, shut |-> {}, sk |-> "none",
               eos |-> 0]

\* the result of the call the client made last; k tells two calls apart
Ret(op, res) == [op |-> op, res |-> res, k |-> 1 - cl.ret.k]

\* send_event<aio_buffer_event>(nullptr), lines 95 and 130
SelfEvent == [h |-> ClientHandler, type |-> "aio", w |-> "other"]

\* the event loop hands the next event to the handler: line 59, i = 0
ClientDispatch ==
    /\ ~Crashed
    /\ cl.pc = "idle" /\ events # <<>>
    /\ events' = Tail(events)
    /\ cl' = [cl EXCEPT !.pc = "get_buffer", !.i = 0]
    /\ UNCHANGED <<buffers_, waiting_, waiting_handlers_, active_signalling_, th, leases,
                   wstate, removed, purged, staleDelivery, reader, writer, rw, ww,
                   delivered, accepted, env, holders, ascii, ip, made>>

\* reader_base::get_buffer(event_handler&), lines 120-128, with
\* threaded_reader::do_get_buffer, lines 185-206, and lines 60-68 of the
\* handler
ClientGetBuffer ==
    /\ ~Crashed
    /\ cl.pc = "get_buffer" /\ reader.kind = "file" /\ reader.mtx_ = "free"
    /\ IF reader.buffers_ = <<>>
       THEN /\ IF reader.error_
               THEN /\ cl' = [cl EXCEPT !.pc = "stopped", !.ret = Ret("get_buffer", "error")]
                    /\ UNCHANGED reader
               ELSE IF reader.eof_
               THEN /\ cl' = [cl EXCEPT !.pc = "eos", !.ret = Ret("get_buffer", "ok"),
                                         !.eos = Min(@ + 1, 2)]
                    /\ UNCHANGED reader
               ELSE /\ cl' = [cl EXCEPT !.pc = "idle", !.ret = Ret("get_buffer", "wait")]
                    /\ reader' = [reader EXCEPT
                                     !.waiting_handlers_ = Append(@, ClientHandler)]
            /\ UNCHANGED delivered
       ELSE /\ reader' = [reader EXCEPT
                             !.buffers_ = Tail(@),
                             !.signalled_ = @ \/ (Len(reader.buffers_) = ReaderMaxBuffers),
                             !.get_buffer_called_ = TRUE]
            /\ cl' = [cl EXCEPT !.pc = "have_buffer", !.b = Head(reader.buffers_),
                                !.ret = Ret("get_buffer", "ok")]
            /\ delivered' = delivered \o Bytes(Head(reader.buffers_))
    /\ UNCHANGED <<poolVars, th, leases, wstate, removed, purged, staleDelivery,
                   writer, rw, ww, accepted, env, holders, ascii, ip, made>>

\* writer_base::add_buffer(buffer_lease&&, event_handler&), lines 33-47, with
\* threaded_writer::do_add_buffer, lines 126-140, and lines 86-95 of the
\* handler. On error the lease stays with the client and is released when the
\* handler returns.
ClientAddBuffer ==
    /\ ~Crashed
    /\ cl.pc = "have_buffer" /\ writer.mtx_ = "free"
    /\ IF writer.error_
       THEN /\ buffers_' = Append(buffers_, cl.b.id)
            /\ th' = [th EXCEPT !["client"] = [IdleLocals EXCEPT !.pc = "sig_begin"]]
            /\ cl' = [cl EXCEPT !.pc = "dropping", !.back = "stopped", !.b = NoLease,
                                !.ret = Ret("add_buffer", "error")]
            /\ UNCHANGED <<writer, accepted, events>>
       ELSE LET q == Append(writer.buffers_, cl.b)
                full == Len(q) >= WriterMaxBuffers
                last == cl.i + 1 >= HandlerIterations
            IN  /\ writer' = [writer EXCEPT
                                 !.buffers_ = q,
                                 !.signalled_ = @ \/ (Len(q) = 1),
                                 !.waiting_handlers_ =
                                     IF full THEN Append(@, ClientHandler) ELSE @]
                /\ accepted' = accepted \o Bytes(cl.b)
                /\ cl' = [cl EXCEPT
                             !.pc = IF full \/ last THEN "idle" ELSE "get_buffer",
                             !.i = IF full THEN @ ELSE @ + 1,
                             !.b = NoLease,
                             !.ret = Ret("add_buffer", IF full THEN "wait" ELSE "ok")]
                /\ events' = IF ~full /\ last THEN Append(events, SelfEvent) ELSE events
                /\ UNCHANGED <<buffers_, th>>
    /\ UNCHANGED <<waiting_, waiting_handlers_, active_signalling_, leases, wstate,
                   removed, purged, staleDelivery, reader, rw, ww, delivered, env, holders, ascii, ip, made>>

FinalizeIgnoresFsync(wr) == wr.buffers_ # <<>>

\* file_writer::continue_finalize line 164
FinalizeMustWait(wr) == wr.buffers_ # <<>> \/ wr.fsync_

\* writer_base::finalize, lines 59-67, threaded_writer::do_finalize, lines
\* 142-152, and file_writer::continue_finalize, lines 154-168: the result and
\* the writer's fields after the call
FinalizeResult(wr) ==
    IF wr.error_ THEN "error"
    ELSE IF wr.finalizing_ = 2 THEN "ok"
    ELSE IF ~wr.open_ THEN "error"
    ELSE IF FinalizeMustWait(wr) THEN "wait" ELSE "ok"
FinalizeRestarts(wr) ==
    IF wr.error_ THEN wr
    ELSE [wr EXCEPT !.finalizing_ = 1,
                    !.signalled_ = @ \/ (wr.fsync_ /\ wr.buffers_ = <<>>),
                    !.waiting_handlers_ =
                        IF FinalizeMustWait(wr) THEN Append(@, ClientHandler) ELSE @]
FinalizeFields(wr) ==
    IF wr.error_ \/ wr.finalizing_ = 2 THEN wr
    ELSE IF ~wr.open_ THEN [wr EXCEPT !.finalizing_ = 1, !.error_ = TRUE]
    ELSE [wr EXCEPT !.finalizing_ = 1,
                    !.signalled_ = @ \/ (wr.fsync_ /\ wr.buffers_ = <<>>),
                    !.waiting_handlers_ =
                        IF FinalizeMustWait(wr) THEN Append(@, ClientHandler) ELSE @]

\* lines 68-81 of the handler: get_buffer gave no lease, finalize the writer
ClientFinalize ==
    /\ ~Crashed
    /\ cl.pc = "eos" /\ writer.mtx_ = "free"
    /\ writer' = FinalizeFields(writer)
    /\ cl' = [cl EXCEPT !.pc = IF FinalizeResult(writer) = "wait" THEN "idle" ELSE "stopped",
                        !.success_ = FinalizeResult(writer) = "ok",
                        !.ret = Ret("finalize", FinalizeResult(writer))]
    /\ UNCHANGED <<poolVars, th, leases, wstate, removed, purged, staleDelivery,
                   reader, rw, ww, delivered, accepted, env, holders, ascii, ip, made>>

\* a lease the client let go has been released
ClientAfterRelease ==
    /\ cl.pc = "dropping" /\ th["client"].pc = "rel_end"
    /\ th' = [th EXCEPT !["client"] = IdleLocals]
    /\ cl' = [cl EXCEPT !.pc = cl.back]
    /\ UNCHANGED <<poolVars, leases, wstate, removed, purged, staleDelivery,
                   reader, writer, rw, ww, delivered, accepted, env, holders, ascii, ip, made>>

(***************************************************************************)
(* A client that reads only: view_reader::do_get_buffer, leases kept and   *)
(* dropped by the client, reader_base::seek                                *)
(***************************************************************************)
\* some byte of the buffer b lies outside the view's data
OutsideView(b) == \E i \in 1..b.len : Bytes(b)[i] >= reader.max_size_

\* reader_base::get_buffer(event_handler&), lines 120-128, with
\* view_reader::do_get_buffer, lines 425-451, up to the return of
\* aio_buffer_pool::get_buffer (lines 284-292); mtx_ is held throughout
ViewGetBuffer ==
    /\ ~Crashed
    /\ cl.pc = "get_buffer" /\ reader.kind = "view" /\ reader.mtx_ = "free"
    /\ th["client"].pc = "idle"
    /\ IF reader.error_
       THEN /\ cl' = [cl EXCEPT !.pc = "stopped", !.ret = Ret("get_buffer", "error")]
            /\ UNCHANGED <<reader, buffers_, th, wstate, removed, delivered>>
       ELSE IF reader.eof_
       THEN /\ cl' = [cl EXCEPT !.pc = "eos", !.ret = Ret("get_buffer", "ok"),
                                !.eos = Min(@ + 1, 2)]
            /\ UNCHANGED <<reader, buffers_, th, wstate, removed, delivered>>
       ELSE IF buffers_ = <<>>
       THEN /\ th' = [th EXCEPT !["client"] =
                         [IdleLocals EXCEPT !.pc = "gb_add", !.w = ReaderWaiter]]
            /\ wstate' = [wstate EXCEPT ![ReaderWaiter] = "registering"]
            /\ removed' = removed \ {ReaderWaiter}
            /\ reader' = [reader EXCEPT !.mtx_ = "client"]
            /\ cl' = [cl EXCEPT !.pc = "view_wait"]
            /\ UNCHANGED <<buffers_, delivered>>
       ELSE LET to_read == IF reader.remaining_ # nosize /\ reader.remaining_ < BufferSize
                           THEN reader.remaining_ ELSE BufferSize
                b == [id |-> Back(buffers_),
                      off |-> Wrap(reader.start_offset_ + reader.size_
                                     + (nosize + 1) - reader.remaining_),
                      len |-> to_read]
            IN  \/ /\ buffers_' = FreeListAfterGet
                   /\ wstate' = [wstate EXCEPT ![ReaderWaiter] = "idle"]
                   /\ removed' = removed \ {ReaderWaiter}
                   /\ reader' = [reader EXCEPT
                                    !.remaining_ = Wrap(@ + (nosize + 1) - to_read),
                                    !.eof_ = (reader.remaining_ = to_read),
                                    !.get_buffer_called_ = TRUE]
                   /\ cl' = [cl EXCEPT !.pc = "have_buffer", !.b = b,
                                       !.ret = Ret("get_buffer", "ok")]
                   /\ delivered' = delivered \o Bytes(b)
                   /\ UNCHANGED th
                \* line 443 copies from outside the view: the copy may fault
                \/ /\ OutsideView(b)
                   /\ th' = [u \in DOMAIN th |-> [th[u] EXCEPT !.pc = "crashed"]]
                   /\ UNCHANGED <<buffers_, wstate, removed, reader, cl, delivered>>
    /\ UNCHANGED <<waiting_, waiting_handlers_, active_signalling_, events, leases,
                   purged, staleDelivery, writer, rw, ww, accepted, env, holders, ascii, ip, made>>

\* lines 435-437 and 124-126: the pool had no buffer and the reader is now
\* its waiter; get_buffer returns wait and the client becomes the reader's
\* waiter
ViewGetBufferWait ==
    /\ ~Crashed
    /\ cl.pc = "view_wait" /\ th["client"].pc = "idle"
    /\ reader' = [reader EXCEPT !.mtx_ = "free",
                                !.waiting_handlers_ = Append(@, ClientHandler)]
    /\ cl' = [cl EXCEPT !.pc = "idle", !.ret = Ret("get_buffer", "wait")]
    /\ UNCHANGED <<poolVars, th, leases, wstate, removed, purged, staleDelivery,
                   writer, rw, ww, delivered, accepted, env, holders, ascii, ip, made>>

\* the client, told that the stream has ended, calls get_buffer again
ClientReenter ==
    /\ ~Crashed
    /\ cl.pc = "eos"
    /\ cl' = [cl EXCEPT !.pc = "get_buffer"]
    /\ UNCHANGED <<poolVars, th, leases, wstate, removed, purged, staleDelivery,
                   reader, writer, rw, ww, delivered, accepted, env, holders, ascii, ip, made>>

\* the client keeps the lease it was given and goes on reading
ClientKeep ==
    /\ ~Crashed
    /\ cl.pc = "have_buffer"
    /\ cl' = [cl EXCEPT !.pc = "get_buffer", !.held = Append(@, cl.b), !.b = NoLease]
    /\ UNCHANGED <<poolVars, th, leases, wstate, removed, purged, staleDelivery,
                   reader, writer, rw, ww, delivered, accepted, env, holders, ascii, ip, made>>

\* the client destroys a lease it holds: buffer_lease::release and
\* aio_buffer_pool::release lines 314-321
ClientDrop(k) ==
    /\ ~Crashed
    /\ cl.pc \in {"get_buffer", "idle", "eos"} /\ th["client"].pc = "idle"
    /\ k \in 1..Len(cl.held)
    /\ buffers_' = Append(buffers_, cl.held[k].id)
    /\ th' = [th EXCEPT !["client"] = [IdleLocals EXCEPT !.pc = "sig_begin"]]
    /\ cl' = [cl EXCEPT !.pc = "dropping", !.back = cl.pc,
                        !.held = SubSeq(@, 1, k - 1) \o SubSeq(@, k + 1, Len(@))]
    /\ UNCHANGED <<waiting_, waiting_handlers_, active_signalling_, events, leases,
                   wstate, removed, purged, staleDelivery, reader, writer, rw, ww,
                   delivered, accepted, env, holders, ascii, ip, made>>

SeekRefusedIgnoresError(r, o, s) == ~SeekRangeOk(r, o, s)

\* reader_base::seek lines 33-45: the range checks and the error flag
SeekRefused(r, o, s) == ~SeekRangeOk(r, o, s) \/ r.error_

\* reader_base::seek lines 26-80: the checks, under mtx_ from line 42 on; op
\* tells whether the client called seek or rewind
SeekCall(offset, size, op) ==
    /\ ~Crashed
    /\ cl.pc \in {"get_buffer", "eos"} /\ th["client"].pc = "idle"
    /\ cl.seeks < MaxSeeks
    /\ reader.mtx_ = "free"
    /\ LET o == SeekOffset(reader, offset)
           s == SeekSize(reader, offset, size)
           c == [cl EXCEPT !.seeks = @ + 1, !.req = <<offset, size>>, !.sk = op,
                           !.eos = 0]
       IN  IF SeekRefused(reader, o, s)
           THEN /\ cl' = [c EXCEPT !.ret = Ret(op, "false")]
                /\ UNCHANGED reader
           ELSE IF ~SeekChange(reader, o, s)
           THEN /\ cl' = [c EXCEPT !.ret = Ret(op, "true"),
                                   !.sk = IF op = "rewind" THEN "rewound" ELSE op]
                /\ UNCHANGED reader
           ELSE IF ~SeekAllowed(reader, o)
           THEN /\ cl' = [c EXCEPT !.ret = Ret(op, "false")]
                /\ UNCHANGED reader
           ELSE /\ cl' = [c EXCEPT !.pc = "seek_remove", !.arg = <<o, s>>]
                /\ reader' = [reader EXCEPT !.mtx_ = "client"]
    /\ UNCHANGED <<poolVars, th, leases, wstate, removed, purged, staleDelivery,
                   writer, rw, ww, delivered, accepted, env, holders, ascii, ip, made>>

\* reader_base::seek called by the client
ClientSeek(offset, size) == SeekCall(offset, size, "seek")

\* reader_base::rewind, lines 17-20
ClientRewind == SeekCall(reader.start_offset_, reader.size_, "rewind")

\* lines 82-101, mtx_ held: remove_waiter at the pool (lines 72-78, which
\* spins while the pool is calling the reader back), remove_waiters on the
\* reader itself (lines 104-118), the queued leases go back to the pool, the
\* new range is set; file_reader::do_seek lines 275-278 then stops the worker
\* and drops mtx_ for the join, view_reader::do_seek just returns true
SeekRemove ==
    /\ ~Crashed
    /\ cl.pc = "seek_remove"
    /\ active_signalling_ # ReaderWaiter
    /\ waiting_' = Erase(waiting_, ReaderWaiter)
    \* no party is left for the releases of the queued leases to signal
    /\ waiting_' = <<>> /\ waiting_handlers_ = <<>>
    /\ removed' = removed \cup {ReaderWaiter}
    /\ wstate' = [wstate EXCEPT ![ReaderWaiter] = IF @ = "waiting" THEN "idle" ELSE @]
    /\ events' = SelectSeq(events, LAMBDA ev :
                     ~(ev.h \in Range(reader.waiting_handlers_)
                         /\ ev.type = "aio" /\ ev.w = "reader"))
    /\ buffers_' = buffers_ \o [i \in 1..Len(reader.buffers_) |-> reader.buffers_[i].id]
    /\ delivered' = <<>>
    /\ LET f == [SeekFields(reader, cl.arg[1], cl.arg[2]) EXCEPT
                    !.buffers_ = <<>>, !.waiting_handlers_ = <<>>, !.mtx_ = "free"]
       IN  IF reader.kind = "file"
           THEN /\ reader' = [f EXCEPT !.quit_ = TRUE, !.signalled_ = TRUE]
                /\ cl' = [cl EXCEPT !.pc = "seek_join"]
           ELSE /\ reader' = f
                /\ cl' = [cl EXCEPT !.pc = "get_buffer", !.ret = Ret(cl.sk, "true"),
                                    !.sk = IF @ = "rewind" THEN "rewound" ELSE @]
    /\ UNCHANGED <<waiting_handlers_, active_signalling_, th, leases, purged,
                   staleDelivery, writer, rw, ww, accepted, env, holders, ascii, ip, made>>

\* file::seek
SeekResults == IF env.faults THEN BOOLEAN ELSE {TRUE}

\* file_reader::do_seek lines 278-294: the worker has left; under mtx_ again
\* quit_ is reset, the file is positioned and, unless at eof, a new worker
\* is started
SeekJoin ==
    /\ ~Crashed
    /\ cl.pc = "seek_join" /\ rw.pc = "done" /\ reader.mtx_ = "free"
    /\ \E ok \in SeekResults :
         IF ok
         THEN /\ reader' = [reader EXCEPT !.quit_ = FALSE, !.file_ = reader.start_offset_]
              /\ rw' = [pc |-> IF reader.eof_ THEN "done" ELSE "start", b |-> NoLease]
              /\ cl' = [cl EXCEPT !.pc = "get_buffer", !.ret = Ret(cl.sk, "true"),
                                  !.sk = IF @ = "rewind" THEN "rewound" ELSE @]
         ELSE /\ reader' = [reader EXCEPT !.quit_ = FALSE]
              /\ UNCHANGED rw
              /\ cl' = [cl EXCEPT !.pc = "stopped", !.ret = Ret(cl.sk, "false")]
    /\ UNCHANGED <<poolVars, th, leases, wstate, removed, purged, staleDelivery,
                   writer, ww, delivered, accepted, env, holders, ascii, ip, made>>

(***************************************************************************)
(* A client that writes only: it takes buffers from the pool, hands them   *)
(* to the writer and calls finalize, in any order the interface allows     *)
(***************************************************************************)
\* the lease object the writing client keeps its buffer in
ClientSlot == 1

WriterEvent == [h |-> ClientHandler, type |-> "aio", w |-> "writer"]

\* add_buffer or finalize returned wait and the handler has not been called
\* with the writer's event since: the client leaves the writer alone
\* (writer.hpp lines 33-34 and 46-47)
AwaitingWriter ==
    \/ ClientHandler \in Range(writer.waiting_handlers_)
    \/ WriterEvent \in Range(events)

\* aio_buffer_pool::get_buffer(event_handler&) called by the client
ApiGetBuffer ==
    /\ ~Crashed
    /\ cl.pc = "api" /\ cl.n < FileSize
    /\ GetBufferHandler("client", ClientSlot, ClientHandler)

AddBufferWaitsWhenOver(q) == Len(q) > WriterMaxBuffers

\* threaded_writer::do_add_buffer line 134: the queue has reached max_buffers
AddBufferWaits(q) == Len(q) >= WriterMaxBuffers

\* writer_base::add_buffer(buffer_lease&&, event_handler&), lines 33-47, with
\* threaded_writer::do_add_buffer, lines 126-140, for the client's lease: it
\* may be empty, or its buffer may hold len bytes, none included. req[2]
\* keeps the number of bytes the call was made with
ApiAddBuffer ==
    /\ ~Crashed
    /\ cl.pc = "api" /\ th["client"].pc = "idle" /\ ~AwaitingWriter
    /\ ~Busy(ClientSlot)
    /\ writer.mtx_ = "free"
    /\ IF writer.error_
       THEN /\ cl' = [cl EXCEPT !.pc = "stopped", !.ret = Ret("add_buffer", "error")]
            /\ UNCHANGED <<writer, accepted, leases>>
       ELSE IF ~leases[ClientSlot].pool
       THEN /\ cl' = [cl EXCEPT !.req = <<0, 0>>, !.ret = Ret("add_buffer", "ok")]
            /\ UNCHANGED <<writer, accepted, leases>>
       ELSE \E len \in 0..Min(BufferSize, FileSize - cl.n) :
              LET b == [id |-> leases[ClientSlot].buf, off |-> cl.n, len |-> len]
                  q == Append(writer.buffers_, b)
                  full == AddBufferWaits(q)
              IN  IF len = 0
                  THEN /\ cl' = [cl EXCEPT !.req = <<0, 0>>,
                                           !.ret = Ret("add_buffer", "ok")]
                       /\ UNCHANGED <<writer, accepted, leases>>
                  ELSE /\ writer' = [writer EXCEPT
                                        !.buffers_ = q,
                                        !.signalled_ = @ \/ (Len(q) = 1),
                                        !.waiting_handlers_ =
                                            IF full THEN Append(@, ClientHandler) ELSE @]
                       /\ accepted' = accepted \o Bytes(b)
                       /\ leases' = [leases EXCEPT ![ClientSlot] = EmptyLease]
                       /\ cl' = [cl EXCEPT !.n = @ + len,
                                           !.req = <<0, len>>,
                                           !.late = @ \/ writer.finalizing_ # 0,
                                           !.ret = Ret("add_buffer",
                                                       IF full THEN "wait" ELSE "ok")]
    /\ UNCHANGED <<poolVars, th, wstate, removed, purged, staleDelivery,
                   reader, rw, ww, delivered, env, holders, ascii, ip, made>>

\* writer_base::finalize(event_handler&), lines 59-67
ApiFinalize ==
    /\ ~Crashed
    /\ cl.pc = "api" /\ th["client"].pc = "idle" /\ ~AwaitingWriter
    /\ writer.mtx_ = "free"
    /\ writer' = FinalizeFields(writer)
    /\ cl' = [cl EXCEPT !.pc = IF FinalizeResult(writer) = "error" THEN "stopped" ELSE "api",
                        !.success_ = @ \/ FinalizeResult(writer) = "ok",
                        !.again = @ \/ cl.success_,
                        !.ret = Ret("finalize", FinalizeResult(writer))]
    /\ UNCHANGED <<poolVars, th, leases, wstate, removed, purged, staleDelivery,
                   reader, rw, ww, delivered, accepted, env, holders, ascii, ip, made>>

\* the writer has failed or is closed: the client lets go of the lease it
\* still holds
ApiDrop ==
    /\ ~Crashed
    /\ cl.pc \in {"stopped", "closed"}
    /\ Release("client", ClientSlot)

\* file::set_modification_time
SetModificationTimeResults == IF env.faults THEN BOOLEAN ELSE {TRUE}

\* file_writer::set_mtime, lines 310-318: whether the call reaches the file
set_mtime(wr) == ~(wr.error_ \/ wr.finalizing_ # 2 \/ ~wr.open_)

ApiSetMtime ==
    /\ ~Crashed
    /\ cl.pc = "api" /\ th["client"].pc = "idle"
    /\ writer.mtx_ = "free"
    /\ \E ok \in (IF set_mtime(writer) THEN SetModificationTimeResults ELSE {FALSE}) :
         /\ writer' = [writer EXCEPT !.mtime_ = @ \/ ok]
         /\ cl' = [cl EXCEPT !.ret = Ret("set_mtime", IF ok THEN "true" ELSE "false")]
    /\ UNCHANGED <<poolVars, th, leases, wstate, removed, purged, staleDelivery,
                   reader, rw, ww, delivered, accepted, env, holders, ascii, ip, made>>

\* file::seek and file::truncate
FileOpResults == IF env.faults THEN BOOLEAN ELSE {TRUE}

\* the size passed to preallocate
PreallocSize == FileSize

\* line 283: the writer has failed, holds data or is being finalized
NotStreaming(wr) == wr.error_ \/ wr.buffers_ # <<>> \/ wr.finalizing_ # 0

\* the outcomes of the file steps of preallocate: reading the position, the
\* seek to position + size, the truncate there, the seek back. A step that
\* is not made has not failed
PreallocOutcomes ==
    {io \in [1..4 -> FileOpResults] :
        /\ (~io[1] \/ ~writer.open_) => (io[2] /\ io[3] /\ io[4])
        /\ ~io[2] => io[3]}

\* file_writer::preallocate, lines 280-308: refused once the writer has
\* failed, holds data or is being finalized; the space behind the file
\* position is reserved (a failure to do so is only logged); the call fails
\* when the position cannot be read, and fails the writer when the position
\* cannot be restored
ApiPreallocate ==
    /\ ~Crashed
    /\ cl.pc = "api" /\ th["client"].pc = "idle"
    /\ writer.mtx_ = "free"
    /\ IF NotStreaming(writer)
       THEN /\ cl' = [cl EXCEPT !.ret = Ret("preallocate", "error")]
            /\ UNCHANGED writer
       ELSE \E io \in PreallocOutcomes :
              LET wr == IF io[2] /\ io[3]
                        THEN [writer EXCEPT !.alloc_ = Position(writer) + PreallocSize]
                        ELSE writer
              IN  IF ~io[1] \/ ~writer.open_
                  THEN /\ cl' = [cl EXCEPT !.ret = Ret("preallocate", "error")]
                       /\ UNCHANGED writer
                  ELSE IF ~io[4]
                  THEN /\ cl' = [cl EXCEPT !.ret = Ret("preallocate", "error")]
                       /\ writer' = [wr EXCEPT !.error_ = TRUE]
                  ELSE /\ cl' = [cl EXCEPT !.ret = Ret("preallocate", "ok")]
                       /\ writer' = [wr EXCEPT !.preallocated_ = TRUE]
    /\ UNCHANGED <<poolVars, th, leases, wstate, removed, purged, staleDelivery,
                   reader, rw, ww, delivered, accepted, env, holders, ascii, ip, made>>

\* aio_waitable::remove_waiters, lines 104-118, of a reader or writer w whose
\* waiters are the handlers hs: the pending events of the handlers still in
\* the list are removed from the loop
RemoveWaitersEvents(hs, q, w) ==
    SelectSeq(q, LAMBDA ev : ~(\E h \in Range(hs) : event_filter(ev, h, w)))

\* writer_base::close, lines 9-11, into threaded_writer::do_close, lines
\* 169-173: quit_ is set, the worker signalled, mtx_ dropped for the join
WriterClose ==
    /\ ~Crashed
    /\ cl.pc \in {"api", "stopped", "closed", "reader_closed"}
    /\ th["client"].pc = "idle"
    /\ writer.mtx_ = "free"
    /\ writer' = [writer EXCEPT !.quit_ = TRUE, !.signalled_ = TRUE]
    /\ cl' = [cl EXCEPT !.pc = "close_join"]
    /\ UNCHANGED <<poolVars, th, leases, wstate, removed, purged, staleDelivery,
                   reader, rw, ww, delivered, accepted, env, holders, ascii, ip, made>>

RemovesUnfinalized(wr) == wr.finalizing_ = 0

\* file_writer::do_close line 217: the file is deleted
RemovesFile(wr) == wr.finalizing_ = 0 /\ Position(wr) = 0

\* threaded_writer::do_close lines 174-175 once the worker has returned, the
\* rest of file_writer::do_close, lines 215-232, and remove_waiters (line 13)
WriterCloseJoin ==
    /\ ~Crashed
    /\ cl.pc = "close_join" /\ ww.pc = "done"
    /\ writer.mtx_ = "free"
    /\ writer' = [writer EXCEPT
                     !.mtx_ = "client",
                     !.open_ = FALSE,
                     !.present_ = IF writer.open_ THEN ~RemovesFile(writer) ELSE @,
                     !.alloc_ = IF writer.open_ /\ ~RemovesFile(writer)
                                   /\ writer.preallocated_
                                THEN 0 ELSE @,
                     !.waiting_handlers_ = <<>>]
    /\ events' = RemoveWaitersEvents(writer.waiting_handlers_, events, "writer")
    /\ cl' = [cl EXCEPT !.pc = "close_clear"]
    /\ UNCHANGED <<buffers_, waiting_, waiting_handlers_, active_signalling_, th, leases,
                   wstate, removed, purged, staleDelivery, reader, rw, ww, delivered,
                   accepted, env, holders, ascii, ip, made>>

\* buffers_.clear(), line 14: the queued leases are destroyed one after the
\* other, each giving its buffer back to the pool; then close returns
WriterCloseClear ==
    /\ ~Crashed
    /\ cl.pc = "close_clear" /\ th["client"].pc = "idle"
    /\ IF writer.buffers_ = <<>>
       THEN /\ writer' = [writer EXCEPT !.mtx_ = "free"]
            /\ cl' = [cl EXCEPT !.pc = "closed", !.ret = Ret("close", "done"),
                                 !.shut = @ \cup {"writer"}]
            /\ UNCHANGED <<buffers_, th>>
       ELSE /\ writer' = [writer EXCEPT !.buffers_ = Tail(@)]
            /\ buffers_' = Append(buffers_, Head(writer.buffers_).id)
            /\ th' = [th EXCEPT !["client"] = [IdleLocals EXCEPT !.pc = "sig_begin"]]
            /\ cl' = [cl EXCEPT !.pc = "dropping", !.back = "close_clear"]
    /\ UNCHANGED <<waiting_, waiting_handlers_, active_signalling_, events, leases,
                   wstate, removed, purged, staleDelivery, reader, rw, ww, delivered,
                   accepted, env, holders, ascii, ip, made>>

(***************************************************************************)
(* SpecPool                                                                *)
(***************************************************************************)
InitPool ==
    /\ holders = NoHolders /\ ascii = FreshLayer /\ ip = NoAddress /\ made = NoReaders
    /\ buffers_ = [i \in 1..BufferCount |-> i]
    /\ waiting_ = <<>>
    /\ waiting_handlers_ = <<>>
    /\ active_signalling_ = NULL
    /\ events = <<>>
    /\ th = [t \in PoolThreads |-> IdleLocals]
    /\ leases = [s \in Slots |-> EmptyLease]
    /\ wstate = [w \in RawWaiters \cup Handlers |-> "idle"]
    /\ removed = {}
    /\ purged = {}
    /\ staleDelivery = FALSE
    /\ reader = FreshReader("file", nosize)
    /\ writer = FreshWriter(FALSE)
    /\ rw = [pc |-> "done", b |-> NoLease]
    /\ ww = [pc |-> "done", signal |-> FALSE]
    /\ cl = [IdleClient EXCEPT !.pc = "stopped"]
    /\ delivered = <<>>
    /\ accepted = <<>>
    /\ env = [faults |-> FALSE, src_len |-> 0]

NextPool ==
    \/ \E t \in PoolThreads, s \in Slots, w \in RawWaiters : GetBuffer(t, s, w)
    \/ \E t \in PoolThreads : GetBufferAddWaiter(t)
    \/ \E t \in PoolThreads, s \in Slots, h \in PoolHandlers : GetBufferHandler(t, s, h)
    \/ \E t \in PoolThreads : GetBufferHandlerAddWaiter(t)
    \/ \E t \in PoolThreads, s \in Slots : Release(t, s)
    \/ \E t \in PoolThreads, d \in Slots, s \in Slots : MoveAssign(t, d, s)
    \/ \E t \in PoolThreads : ReleaseEnd(t)
    \/ \E t \in PoolThreads : SignalBegin(t)
    \/ \E t \in PoolThreads : SignalCall(t)
    \/ \E t \in PoolThreads : SignalCallbackReturn(t)
    \/ \E t \in PoolThreads : SignalEnd(t)
    \/ \E t \in PoolThreads, w \in RawWaiters : RemoveWaiter(t, w)
    \/ \E t \in PoolThreads, h \in PoolHandlers : RemoveWaiterHandler(t, h)
    \/ Deliver

SpecPool == InitPool /\ [][NextPool]_vars

(***************************************************************************)
(* SpecEvents: event handlers waiting on the pool, and the event loop      *)
(***************************************************************************)
NextEvents ==
    \/ \E t \in PoolThreads, s \in Slots, h \in Handlers : GetBufferHandler(t, s, h)
    \/ \E t \in PoolThreads : GetBufferHandlerAddWaiter(t)
    \/ \E t \in PoolThreads, s \in Slots : Release(t, s)
    \/ \E t \in PoolThreads : ReleaseEnd(t)
    \/ \E t \in PoolThreads : SignalBegin(t)
    \/ \E t \in PoolThreads, h \in Handlers : RemoveWaiterHandler(t, h)
    \/ \E ev \in OtherEvents : PostOther(ev)
    \/ Deliver

SpecEvents == InitPool /\ [][NextEvents]_vars

(***************************************************************************)
(* Spec: a file reader and a file writer on one pool, driven by the client *)
(***************************************************************************)
\* the source's true length: what the reader was told, or one byte less when
\* file operations may fail
Environments ==
    {[faults |-> FALSE, src_len |-> FileSize]}
      \cup {[faults |-> TRUE, src_len |-> n] : n \in {FileSize - 1, FileSize}}

\* the pool and the threads before any call
InitShared ==
    /\ holders = NoHolders /\ ascii = FreshLayer /\ ip = NoAddress /\ made = NoReaders
    /\ buffers_ = [i \in 1..BufferCount |-> i]
    /\ waiting_ = <<>>
    /\ waiting_handlers_ = <<>>
    /\ active_signalling_ = NULL
    /\ th = [t \in PipeThreads |-> IdleLocals]
    /\ leases = [s \in Slots |-> EmptyLease]
    /\ wstate = [w \in RawWaiters \cup Handlers |-> "idle"]
    /\ removed = {}
    /\ purged = {}
    /\ staleDelivery = FALSE
    /\ delivered = <<>>
    /\ accepted = <<>>

\* main() of src/demos/aio.cpp: reader and writer opened with the defaults,
\* one event sent to the handler (line 130)
Init ==
    /\ InitShared
    /\ events = <<SelfEvent>>
    /\ env \in Environments
    /\ reader = OpenFileReader(FileSize, 0, nosize)
    /\ \E fsync \in BOOLEAN : writer = FreshWriter(fsync)
    /\ rw = [pc |-> IF reader.eof_ THEN "done" ELSE "start", b |-> NoLease]
    /\ ww = [pc |-> "start", signal |-> FALSE]
    /\ cl = IdleClient

Next ==
    \/ ClientDispatch
    \/ ClientGetBuffer
    \/ ClientAddBuffer
    \/ ClientFinalize
    \/ ClientAfterRelease
    \/ EntryStart
    \/ EntryLoop
    \/ GetBufferAddWaiter("rworker")
    \/ EntryWaitPool
    \/ EntryWake
    \/ EntryRead
    \/ EntryAfterRelease
    \/ WriterEntryStart
    \/ WriterEntryLoop
    \/ WriterEntryWake
    \/ WriterEntryWrite
    \/ WriterEntryAfterErase
    \/ \E t \in PipeThreads : SignalBegin(t)
    \/ \E t \in PipeThreads : SignalCall(t)
    \/ \E t \in PipeThreads : OnBufferAvailability(t)
    \/ \E t \in PipeThreads : SignalEnd(t)

Spec == Init /\ [][Next]_vars

(***************************************************************************)
(* SpecReader: one reader on the pool and a client that reads, keeps and   *)
(* drops leases and seeks                                                  *)
(***************************************************************************)
ReaderThreads == {"client", "rworker"}

\* how the reader is opened: a file of known or unknown size or a view, with
\* the default range or an explicit one; env keeps the offset and size the
\* factory's open was called with
ReaderConfigs ==
    {[kind |-> "file", max_size |-> FileSize, offset |-> 0, size |-> nosize],
     [kind |-> "file", max_size |-> FileSize, offset |-> 1, size |-> 2],
     [kind |-> "file", max_size |-> nosize, offset |-> 0, size |-> nosize],
     [kind |-> "view", max_size |-> FileSize, offset |-> 0, size |-> nosize],
     [kind |-> "view", max_size |-> FileSize, offset |-> 1, size |-> 2]}

\* the (offset, size) arguments of the client's seek calls; the last is an
\* offset behind the end of the source with no size
SeekArgs == {<<nosize, nosize>>, <<0, nosize>>, <<1, nosize>>, <<nosize, 1>>,
             <<1, 2>>, <<3, 2>>, <<nosize - 1, 2>>, <<FileSize + 2, nosize>>}

InitReader ==
    /\ InitShared
    /\ events = <<SelfEvent>>
    /\ \E c \in ReaderConfigs :
         IF c.kind = "file"
         THEN /\ FileReaderOpens(c.max_size, c.offset, c.size)
              /\ reader = OpenFileReader(c.max_size, c.offset, c.size)
              /\ \E e \in Environments :
                    env = [faults |-> e.faults, src_len |-> e.src_len,
                           offset |-> c.offset, size |-> c.size]
         ELSE /\ ViewReaderOpens(c.max_size, c.offset, c.size)
              /\ reader = OpenViewReader(c.max_size, c.offset, c.size)
              /\ env = [faults |-> FALSE, src_len |-> c.max_size,
                        offset |-> c.offset, size |-> c.size]
    /\ rw = [pc |-> IF reader.kind = "file" /\ ~reader.eof_ THEN "start" ELSE "done",
             b |-> NoLease]
    /\ writer = FreshWriter(FALSE)
    /\ ww = [pc |-> "done", signal |-> FALSE]
    /\ cl = IdleClient

NextReader ==
    \/ ClientDispatch
    \/ ClientGetBuffer
    \/ ViewGetBuffer
    \/ ViewGetBufferWait
    \/ ClientReenter
    \/ ClientKeep
    \/ \E k \in 1..BufferCount : ClientDrop(k)
    \/ ClientAfterRelease
    \/ \E a \in SeekArgs : ClientSeek(a[1], a[2])
    \/ ClientRewind
    \/ SeekRemove
    \/ SeekJoin
    \/ EntryStart
    \/ EntryLoop
    \/ \E t \in ReaderThreads : GetBufferAddWaiter(t)
    \/ EntryWaitPool
    \/ EntryWake
    \/ EntryRead
    \/ EntryAfterRelease
    \/ \E t \in ReaderThreads : SignalBegin(t)
    \/ \E t \in ReaderThreads : SignalCall(t)
    \/ \E t \in ReaderThreads : OnBufferAvailability(t)
    \/ \E t \in ReaderThreads : SignalEnd(t)

SpecReader == InitReader /\ [][NextReader]_vars

(***************************************************************************)
(* SpecWriter: one file writer on the pool and a client that writes        *)
(***************************************************************************)
WriterThreads == {"client", "wworker"}

\* the offsets the writer is opened at (file_writer_factory::open, lines
\* 327-359: a new empty file for offset 0, an existing file cut at the offset
\* otherwise)
OpenOffsets == {0, 1}

InitWriter ==
    /\ InitShared
    /\ events = <<>>
    /\ \E f \in BOOLEAN : env = [faults |-> f, src_len |-> FileSize]
    /\ reader = FreshReader("file", nosize)
    /\ rw = [pc |-> "done", b |-> NoLease]
    /\ \E fsync \in BOOLEAN, offset \in OpenOffsets :
         writer = [FreshWriter(fsync) EXCEPT !.offset_ = offset]
    /\ ww = [pc |-> "start", signal |-> FALSE]
    /\ cl = [IdleClient EXCEPT !.pc = "api"]

NextWriter ==
    \/ ApiGetBuffer
    \/ GetBufferHandlerAddWaiter("client")
    \/ ApiAddBuffer
    \/ ApiFinalize
    \/ ApiSetMtime
    \/ ApiPreallocate
    \/ ApiDrop
    \/ ReleaseEnd("client")
    \/ ClientAfterRelease
    \/ WriterClose
    \/ WriterCloseJoin
    \/ WriterCloseClear
    \/ Deliver
    \/ WriterEntryStart
    \/ WriterEntryLoop
    \/ WriterEntryWake
    \/ WriterEntryWrite
    \/ WriterEntryAfterErase
    \/ \E t \in WriterThreads : SignalBegin(t)

SpecWriter == InitWriter /\ [][NextWriter]_vars

(***************************************************************************)
(* SpecClose: the pipeline of Spec with a client that may close the reader *)
(* and then the writer whenever its handler is not running, and may close  *)
(* them again                                                              *)
(***************************************************************************)
\* reader_base::close, lines 8-11, into file_reader::do_close, lines
\* 262-266: quit_ is set, the worker signalled, mtx_ dropped for the join
ReaderClose ==
    /\ ~Crashed
    /\ cl.pc \in {"idle", "stopped", "closed"} /\ th["client"].pc = "idle"
    /\ reader.mtx_ = "free"
    /\ reader' = [reader EXCEPT !.quit_ = TRUE, !.signalled_ = TRUE]
    /\ cl' = [cl EXCEPT !.pc = "rclose_join"]
    /\ UNCHANGED <<poolVars, th, leases, wstate, removed, purged, staleDelivery,
                   writer, rw, ww, delivered, accepted, env, holders, ascii, ip, made>>

\* file_reader::do_close lines 267-269: the worker has returned, mtx_ is
\* taken again
ReaderCloseJoin ==
    /\ ~Crashed
    /\ cl.pc = "rclose_join" /\ rw.pc = "done" /\ reader.mtx_ = "free"
    /\ reader' = [reader EXCEPT !.mtx_ = "client"]
    /\ cl' = [cl EXCEPT !.pc = "rclose_remove"]
    /\ UNCHANGED <<poolVars, th, leases, wstate, removed, purged, staleDelivery,
                   writer, rw, ww, delivered, accepted, env, holders, ascii, ip, made>>

WaitingKept == waiting_

\* aio_waitable::remove_waiter line 77: the reader is erased from the pool's
\* waiters
WaitingAfterRemove == Erase(waiting_, ReaderWaiter)

\* reader_base::close lines 12-13, mtx_ held: remove_waiter at the pool
\* (aio.cpp lines 72-78, which spins while the pool is calling the reader
\* back) and remove_waiters on the reader itself (aio.cpp lines 104-118)
ReaderCloseRemove ==
    /\ ~Crashed
    /\ cl.pc = "rclose_remove"
    /\ active_signalling_ # ReaderWaiter
    /\ waiting_' = WaitingAfterRemove
    /\ removed' = removed \cup {ReaderWaiter}
    /\ wstate' = [wstate EXCEPT ![ReaderWaiter] = IF @ = "waiting" THEN "idle" ELSE @]
    /\ events' = RemoveWaitersEvents(reader.waiting_handlers_, events, "reader")
    /\ reader' = [reader EXCEPT !.waiting_handlers_ = <<>>]
    /\ cl' = [cl EXCEPT !.pc = "rclose_clear"]
    /\ UNCHANGED <<buffers_, waiting_handlers_, active_signalling_, th, leases, purged,
                   staleDelivery, writer, rw, ww, delivered, accepted, env, holders, ascii, ip, made>>

\* buffers_.clear(), line 14: the queued leases are destroyed one after the
\* other, each giving its buffer back to the pool; then close returns
ReaderCloseClear ==
    /\ ~Crashed
    /\ cl.pc = "rclose_clear" /\ th["client"].pc = "idle"
    /\ IF reader.buffers_ = <<>>
       THEN /\ reader' = [reader EXCEPT !.mtx_ = "free"]
            /\ cl' = [cl EXCEPT !.pc = "reader_closed", !.shut = @ \cup {"reader"}]
            /\ UNCHANGED <<buffers_, th>>
       ELSE /\ reader' = [reader EXCEPT !.buffers_ = Tail(@)]
            /\ buffers_' = Append(buffers_, Head(reader.buffers_).id)
            /\ th' = [th EXCEPT !["client"] = [IdleLocals EXCEPT !.pc = "sig_begin"]]
            /\ cl' = [cl EXCEPT !.pc = "dropping", !.back = "rclose_clear"]
    /\ UNCHANGED <<waiting_, waiting_handlers_, active_signalling_, events, leases,
                   wstate, removed, purged, staleDelivery, writer, rw, ww, delivered,
                   accepted, env, holders, ascii, ip, made>>

NextClose ==
    \/ ClientDispatch
    \/ ClientGetBuffer
    \/ ClientAddBuffer
    \/ ClientFinalize
    \/ ClientAfterRelease
    \/ ReaderClose
    \/ ReaderCloseJoin
    \/ ReaderCloseRemove
    \/ ReaderCloseClear
    \/ WriterClose
    \/ WriterCloseJoin
    \/ WriterCloseClear
    \/ EntryStart
    \/ EntryLoop
    \/ GetBufferAddWaiter("rworker")
    \/ EntryWaitPool
    \/ EntryWake
    \/ EntryRead
    \/ EntryAfterRelease
    \/ WriterEntryStart
    \/ WriterEntryLoop
    \/ WriterEntryWake
    \/ WriterEntryWrite
    \/ WriterEntryAfterErase
    \/ \E t \in PipeThreads : SignalBegin(t)
    \/ \E t \in PipeThreads : SignalCall(t)
    \/ \E t \in PipeThreads : OnBufferAvailability(t)
    \/ \E t \in PipeThreads : SignalEnd(t)

SpecClose == Init /\ [][NextClose]_vars

(***************************************************************************)
(* SpecHolders: reader_factory_holder and writer_factory_holder objects    *)
(* that are constructed, copied, moved, assigned and destroyed             *)
(***************************************************************************)
holderFrame == <<poolVars, th, leases, wstate, removed, purged, staleDelivery,
                 reader, writer, rw, ww, cl, delivered, accepted, env, ascii, ip, made>>

\* reader_factory::clone of object i: a new factory object with the same name
CloneFactory(i) == Append(holders.factories, holders.factories[i])
HasRoom == Len(holders.factories) < MaxFactories

\* reader_factory_holder() = default
HolderDefault(h) ==
    /\ h \notin holders.alive
    /\ holders' = [holders EXCEPT !.alive = @ \cup {h}, !.impl_[h] = 0,
                                  !.last = <<"default", h, 0>>]
    /\ UNCHANGED holderFrame

\* reader_factory_holder(reader_factory const&), lines 177-180
HolderFromFactory(h, name) ==
    /\ h \notin holders.alive /\ HasRoom
    /\ holders' = [holders EXCEPT !.alive = @ \cup {h},
                                  !.factories = Append(@, name),
                                  !.impl_[h] = Len(holders.factories) + 1,
                                  !.last = <<"factory", h, 0>>]
    /\ UNCHANGED holderFrame

\* the copy constructor, lines 130-135
HolderCopyConstruct(d, s) ==
    /\ d \notin holders.alive /\ s \in holders.alive /\ HasRoom
    /\ holders' = IF holders.impl_[s] # 0
                  THEN [holders EXCEPT !.alive = @ \cup {d},
                                       !.factories = CloneFactory(holders.impl_[s]),
                                       !.impl_[d] = Len(holders.factories) + 1,
                                       !.last = <<"copy", d, s>>]
                  ELSE [holders EXCEPT !.alive = @ \cup {d}, !.impl_[d] = 0,
                                       !.last = <<"copy", d, s>>]
    /\ UNCHANGED holderFrame

\* copy assignment line 139: the target is touched only if the source holds
\* a factory
CopyAssignTouches(d, s) == d # s /\ holders.impl_[s] # 0

\* copy assignment, lines 137-143
HolderCopyAssign(d, s) ==
    /\ d \in holders.alive /\ s \in holders.alive /\ HasRoom
    /\ holders' = IF CopyAssignTouches(d, s)
                  THEN [holders EXCEPT !.factories = CloneFactory(holders.impl_[s]),
                                       !.impl_[d] = Len(holders.factories) + 1,
                                       !.last = <<"copy_assign", d, s>>]
                  ELSE [holders EXCEPT !.last = <<"copy_assign", d, s>>]
    /\ UNCHANGED holderFrame

\* the move constructor, lines 145-149
HolderMoveConstruct(d, s) ==
    /\ d \notin holders.alive /\ s \in holders.alive
    /\ holders' = [holders EXCEPT !.alive = @ \cup {d},
                                  !.impl_ = [@ EXCEPT ![d] = holders.impl_[s], ![s] = 0],
                                  !.last = <<"move", d, s>>]
    /\ UNCHANGED holderFrame

\* move assignment, lines 151-159
HolderMoveAssign(d, s) ==
    /\ d \in holders.alive /\ s \in holders.alive
    /\ holders' = IF d = s
                  THEN [holders EXCEPT !.last = <<"move_assign", d, s>>]
                  ELSE [holders EXCEPT
                           !.impl_ = [@ EXCEPT ![d] = holders.impl_[s], ![s] = 0],
                           !.last = <<"move_assign", d, s>>]
    /\ UNCHANGED holderFrame

\* the destructor of a holder
HolderDestroy(h) ==
    /\ h \in holders.alive
    /\ holders' = [holders EXCEPT !.alive = @ \ {h}, !.impl_[h] = 0,
                                  !.last = <<"destroy", h, 0>>]
    /\ UNCHANGED holderFrame

NextHolders ==
    \/ \E h \in HolderIds : HolderDefault(h)
    \/ \E h \in HolderIds, name \in FactoryNames : HolderFromFactory(h, name)
    \/ \E d \in HolderIds, s \in HolderIds : HolderCopyConstruct(d, s)
    \/ \E d \in HolderIds, s \in HolderIds : HolderCopyAssign(d, s)
    \/ \E d \in HolderIds, s \in HolderIds : HolderMoveConstruct(d, s)
    \/ \E d \in HolderIds, s \in HolderIds : HolderMoveAssign(d, s)
    \/ \E h \in HolderIds : HolderDestroy(h)

SpecHolders == InitPool /\ [][NextHolders]_vars

(***************************************************************************)
(* SpecAscii: an ascii_layer whose owner writes chunks of bytes, on a next *)
(* layer that takes the bytes in pieces, reports a full send buffer or     *)
(* fails                                                                   *)
(***************************************************************************)
asciiFrame == <<poolVars, th, leases, wstate, removed, purged, staleDelivery,
                reader, writer, rw, ww, cl, delivered, accepted, env, holders, ip, made>>

\* '\r', '\n' and a byte that is neither
CR == 13
LF == 10
Letter == 97
AsciiBytes == {CR, LF, Letter}

\* the bytes written in one behaviour, and the size of one write call
MaxInput == 4
MaxChunk == 2
Chunks == UNION {[1..n -> AsciiBytes] : n \in 0..MaxChunk}

\* ascii_layer::write lines 878-890: the bytes put into buffer_ for the bytes
\* in, was_cr telling whether the byte before them was '\r'
RECURSIVE AsciiEncode(_, _)
AsciiEncode(in, was_cr) ==
    IF in = <<>> THEN <<>>
    ELSE LET ch == Head(in)
         IN  (IF ch = LF /\ was_cr THEN <<CR>> ELSE <<>>) \o <<ch>>
                 \o AsciiEncode(Tail(in), ch = CR)

\* the loops over next_layer_.write: the next layer takes the first sent
\* bytes of buf; it takes them all (done) or ends with EAGAIN or an error
FlushOutcomes(buf) ==
    {[sent |-> Len(buf), res |-> "done"]}
        \cup {[sent |-> k, res |-> r] : k \in 0..(Len(buf) - 1), r \in {"EAGAIN", "error"}}

\* buffer_.consume for the bytes the next layer took
Consumed(a, f) ==
    [a EXCEPT !.wire = @ \o SubSeq(a.buffer_, 1, f.sent),
              !.buffer_ = SubSeq(@, f.sent + 1, Len(@)),
              !.failed = @ \/ f.res = "error"]

\* the loops of write, lines 867-876 and 892-902: EAGAIN sets
\* write_blocked_by_send_buffer_
Flushed(a, f) ==
    [Consumed(a, f) EXCEPT !.write_blocked_by_send_buffer_ = @ \/ f.res = "EAGAIN"]

\* ascii_layer::write, lines 855-905, called with the bytes of chunk
AsciiWrite(chunk) ==
    /\ ~ascii.failed
    /\ Len(ascii.input) + Len(chunk) <= MaxInput
    /\ IF chunk = <<>>
       THEN ascii' = [ascii EXCEPT !.last = <<"write", "EINVAL">>]
       ELSE IF ascii.write_blocked_by_send_buffer_
       THEN ascii' = [ascii EXCEPT !.last = <<"write", "EAGAIN">>]
       ELSE \E f1 \in FlushOutcomes(ascii.buffer_) :
              IF f1.res # "done"
              THEN ascii' = [Flushed(ascii, f1) EXCEPT !.last = <<"write", f1.res>>]
              ELSE LET a1 == Flushed(ascii, f1)
                       a2 == [a1 EXCEPT !.buffer_ = AsciiEncode(chunk, a1.was_cr_),
                                        !.was_cr_ = chunk[Len(chunk)] = CR]
                   IN  \E f2 \in FlushOutcomes(a2.buffer_) :
                         ascii' = [Flushed(a2, f2) EXCEPT
                                      !.input = IF f2.res = "error" THEN @ ELSE @ \o chunk,
                                      !.last = <<"write", IF f2.res = "error"
                                                          THEN "error" ELSE "size">>]
    /\ UNCHANGED asciiFrame

\* ascii_layer::on_socket_event, lines 937-969, for a write event of the next
\* layer: an event carrying an error is passed on; otherwise buffer_ is sent,
\* and once it is empty the layer is unblocked and its owner told
AsciiOnSocketEvent(error) ==
    /\ ~ascii.failed
    /\ IF error
       THEN ascii' = [ascii EXCEPT !.failed = TRUE, !.last = <<"event", "error">>]
       ELSE \E f \in FlushOutcomes(ascii.buffer_) :
              ascii' = [Consumed(ascii, f) EXCEPT
                           !.write_blocked_by_send_buffer_ = @ /\ f.res # "done",
                           !.last = <<"event", f.res>>]
    /\ UNCHANGED asciiFrame

NextAscii ==
    \/ \E chunk \in Chunks : AsciiWrite(chunk)
    \/ \E error \in BOOLEAN : AsciiOnSocketEvent(error)

SpecAscii == InitPool /\ [][NextAscii]_vars

(***************************************************************************)
(* SpecIpv6: get_ipv6_long_form called with an address, and then with its  *)
(* own result                                                              *)
(***************************************************************************)
ipFrame == <<poolVars, th, leases, wstate, removed, purged, staleDelivery,
             reader, writer, rw, ww, cl, delivered, accepted, env, holders, ascii, made>>

HexDigits == {"0", "1", "2", "3", "4", "5", "6", "7", "8", "9",
              "a", "b", "c", "d", "e", "f"}
UpperHexDigits == {"A", "B", "C", "D", "E", "F"}

\* c + ('a' - 'A')
ToLower(c) ==
    CASE c = "A" -> "a" [] c = "B" -> "b" [] c = "C" -> "c"
      [] c = "D" -> "d" [] c = "E" -> "e" [] c = "F" -> "f" [] OTHER -> c

\* String::npos
npos == -1

\* the character at position i, counted from 0
At(s, i) == s[i + 1]

\* short_address.find(':', from) and short_address.rfind(':', upto)
Find(s, from) ==
    LET hits == {i \in from..(Len(s) - 1) : At(s, i) = ":"}
    IN  IF hits = {} THEN npos ELSE CHOOSE i \in hits : \A j \in hits : i <= j
RFind(s, upto) ==
    LET hits == {i \in 0..Min(upto, Len(s) - 1) : At(s, i) = ":"}
    IN  IF hits = {} THEN npos ELSE CHOOSE i \in hits : \A j \in hits : i >= j

\* the characters at positions from .. to - 1, as the loops of lines 80-91
\* and 115-126 copy them: refused if one is no hex digit, else in lower case
Group(s, from, to) == [i \in 1..(to - from) |-> At(s, from + i - 1)]
ValidGroup(g) == \A i \in 1..Len(g) : g[i] \in HexDigits \cup UpperHexDigits
Lowered(g) == [i \in 1..Len(g) |-> ToLower(g[i])]

\* buf with the characters g written from position at on
Put(buf, at, g) ==
    [i \in 1..Len(buf) |-> IF i - 1 >= at /\ i - 1 < at + Len(g) THEN g[i - at] ELSE buf[i]]

\* lines 40-49: eight groups of "0000" with ':' between them, 39 characters
ZeroAddress == [i \in 1..39 |-> IF i % 5 = 0 THEN ":" ELSE "0"]

\* line 36
LengthRefused(start, end) == end - start < 2 \/ end - start > 39

SegmentsUnchecked(start, end) == FALSE

\* lines 133-136: part of the address is left between the two halves
TooManySegments(start, end) == start < end

\* lines 53-95, the left half before a possible "::"
RECURSIVE LeftHalf(_, _, _, _, _)
LeftHalf(s, start, end, left_segments, buf) ==
    IF ~(left_segments < 8 /\ start < end)
    THEN [ok |-> TRUE, start |-> start, left_segments |-> left_segments, buf |-> buf]
    ELSE LET found == Find(s, start)
             pos == IF found = npos THEN end ELSE found
             group_length == pos - start
         IN  IF pos = start
             THEN IF left_segments = 0
                  THEN [ok |-> At(s, start + 1) = ":", start |-> pos + 1,
                        left_segments |-> left_segments, buf |-> buf]
                  ELSE [ok |-> TRUE, start |-> pos,
                        left_segments |-> left_segments, buf |-> buf]
             ELSE IF group_length > 4 \/ ~ValidGroup(Group(s, start, pos))
             THEN [ok |-> FALSE, start |-> start,
                   left_segments |-> left_segments, buf |-> buf]
             ELSE LeftHalf(s, pos + 1, end, left_segments + 1,
                           Put(buf, 5 * left_segments + 4 - group_length,
                               Lowered(Group(s, start, pos))))

\* lines 97-131, the right half after a possible "::", from the end backwards
RECURSIVE RightHalf(_, _, _, _, _, _)
RightHalf(s, start, end, left_segments, right_segments, buf) ==
    IF ~(left_segments + right_segments < 8 /\ start < end)
    THEN [ok |-> TRUE, end |-> end, buf |-> buf]
    ELSE LET e == end - 1
             pos == RFind(s, e)
             group_length == e - pos
         IN  IF group_length = 0
             THEN [ok |-> left_segments = 0 /\ right_segments = 0, end |-> e, buf |-> buf]
             ELSE IF group_length > 4 \/ ~ValidGroup(Group(s, pos + 1, e + 1))
             THEN [ok |-> FALSE, end |-> e, buf |-> buf]
             ELSE RightHalf(s, start, pos, left_segments, right_segments + 1,
                            Put(buf, 5 * (8 - right_segments) - 1 - group_length,
                                Lowered(Group(s, pos + 1, e + 1))))

\* do_get_ipv6_long_form, lines 24-138; the empty string is the refusal
do_get_ipv6_long_form(short_address) ==
    LET bracket == short_address # <<>> /\ short_address[1] = "["
        start == IF bracket THEN 1 ELSE 0
        end == IF bracket THEN Len(short_address) - 1 ELSE Len(short_address)
    IN  IF bracket /\ Back(short_address) # "]" THEN <<>>
        ELSE IF LengthRefused(start, end) THEN <<>>
        ELSE LET l == LeftHalf(short_address, start, end, 0, ZeroAddress)
             IN  IF ~l.ok THEN <<>>
                 ELSE LET r == RightHalf(short_address, l.start, end,
                                         l.left_segments, 0, l.buf)
                      IN  IF ~r.ok \/ TooManySegments(l.start, r.end) THEN <<>>
                          ELSE r.buf

\* get_ipv6_long_form(std::string_view const&), lines 140-143
get_ipv6_long_form(short_address) == do_get_ipv6_long_form(short_address)

\* the arguments tried: up to MaxGroups groups with ':' between them, bare, in
\* brackets, or with the opening bracket only. An empty group between two
\* others gives "::"
MaxGroups == 10
Groups == {<<>>, <<"1">>, <<"0", "a", "0", "B">>}
RECURSIVE Joined(_)
Joined(gs) ==
    IF gs = <<>> THEN <<>>
    ELSE IF Len(gs) = 1 THEN gs[1]
    ELSE gs[1] \o <<":">> \o Joined(Tail(gs))
Bracketings == {"bare", "brackets", "open"}
Bracketed(a, how) ==
    CASE how = "bare" -> a
      [] how = "brackets" -> <<"[">> \o a \o <<"]">>
      [] how = "open" -> <<"[">> \o a
Addresses(max) ==
    {Bracketed(Joined(gs), how) :
        gs \in UNION {[1..n -> Groups] : n \in 0..max}, how \in Bracketings}

\* the first call, with any of the addresses
CallLongForm ==
    /\ ip.calls = 0
    /\ \E a \in Addresses(MaxGroups) : ip' = [calls |-> 1, in |-> a, out |-> get_ipv6_long_form(a)]
    /\ UNCHANGED ipFrame

\* a further call with the result of the call before
CallLongFormAgain ==
    /\ ip.calls \in 1..2 /\ ip.out # <<>>
    /\ ip' = [calls |-> ip.calls + 1, in |-> ip.out, out |-> get_ipv6_long_form(ip.out)]
    /\ UNCHANGED ipFrame

NextIpv6 ==
    \/ CallLongForm
    \/ CallLongFormAgain

SpecIpv6 == InitPool /\ [][NextIpv6]_vars

(***************************************************************************)
(* SpecCtor: the two constructors of file_reader applied to one file,      *)
(* offset and size, and the first get_buffer on each reader                *)
(***************************************************************************)
ctorFrame == <<poolVars, th, leases, wstate, removed, purged, staleDelivery,
               reader, writer, rw, ww, cl, delivered, accepted, env, holders,
               ascii, ip>>

\* what file::size returns for the file handed over: -1 when it cannot be told
UnknownFileSize == 0 - 1
FileSizes == {UnknownFileSize} \cup 0..FileSize

\* the offset and size arguments of the constructors
CtorOffsets == {0, 1, nosize}
CtorSizes == {0, 2, nosize, FileSize + 1}

\* valid: file_ is an open file; s: its size; seeks: file::seek reaches the
\* position asked for; spawns: the thread pool has a thread to give
CtorInputs ==
    [valid : BOOLEAN, s : FileSizes, offset : CtorOffsets, size : CtorSizes,
     seeks : BOOLEAN, spawns : BOOLEAN]

\* file_reader::do_seek, lines 272-295, on a reader that has no worker yet:
\* the condition is signalled, the file is positioned and, unless at eof, a
\* worker is spawned
do_seek(f, in) ==
    LET g == [f EXCEPT !.signalled_ = TRUE]
    IN  IF ~in.seeks
        THEN [r |-> g, task_ |-> FALSE, ok |-> FALSE]
        ELSE IF ~g.eof_
        THEN [r |-> [g EXCEPT !.file_ = g.start_offset_], task_ |-> in.spawns,
              ok |-> in.spawns]
        ELSE [r |-> [g EXCEPT !.file_ = g.start_offset_], task_ |-> FALSE, ok |-> TRUE]

\* reader_base::seek, lines 22-101, as the constructors call it
CtorSeek(r, in) ==
    LET o == SeekOffset(r, in.offset)
        s == SeekSize(r, in.offset, in.size)
    IN  IF SeekRefused(r, o, s)
        THEN [r |-> r, task_ |-> FALSE, ok |-> FALSE]
        ELSE IF ~SeekChange(r, o, s)
        THEN [r |-> r, task_ |-> FALSE, ok |-> TRUE]
        ELSE IF ~SeekAllowed(r, o)
        THEN [r |-> r, task_ |-> FALSE, ok |-> FALSE]
        ELSE do_seek(SeekFields(r, o, s), in)

\* lines 215-219 and 234-241: max_size_ from the file's size, then seek
SizedAndPositioned(in) ==
    CtorSeek(FreshReader("file", IF in.s >= 0 THEN in.s ELSE nosize), in)

\* file_reader(std::wstring && name, ...), lines 209-226
file_reader_wstring(in) ==
    IF in.valid
    THEN LET k == SizedAndPositioned(in)
         IN  [r |-> [k.r EXCEPT !.error_ = ~k.ok], task_ |-> k.task_]
    ELSE [r |-> [FreshReader("file", nosize) EXCEPT !.error_ = TRUE], task_ |-> FALSE]

\* file_reader(std::wstring_view name, ...), lines 228-250
file_reader_wstring_view(in) ==
    LET k == IF in.valid THEN SizedAndPositioned(in)
             ELSE [r |-> FreshReader("file", nosize), task_ |-> FALSE, ok |-> TRUE]
    IN  [r |-> [k.r EXCEPT !.error_ = ~k.ok \/ ~in.valid \/ ~k.task_],
         task_ |-> k.task_]

\* threaded_reader::do_get_buffer, lines 185-195, with an empty queue
GetBufferEmptyQueue(r) ==
    IF r.error_ THEN "error" ELSE IF r.eof_ THEN "ok" ELSE "wait"

\* a file is opened (or fails to open) and the arguments are chosen
OpenFile ==
    /\ made.step = "none"
    /\ \E in \in CtorInputs : made' = [step |-> "opened", in |-> in]
    /\ UNCHANGED ctorFrame

\* a reader is constructed with each overload
ConstructReaders ==
    /\ made.step = "opened"
    /\ made' = [step |-> "made", in |-> made.in,
                a |-> file_reader_wstring(made.in),
                b |-> file_reader_wstring_view(made.in)]
    /\ UNCHANGED ctorFrame

\* get_buffer is called on each reader before its worker has queued a buffer
FirstGetBuffer ==
    /\ made.step = "made"
    /\ made' = [step |-> "read", in |-> made.in, a |-> made.a, b |-> made.b,
                got |-> <<GetBufferEmptyQueue(made.a.r), GetBufferEmptyQueue(made.b.r)>>]
    /\ UNCHANGED ctorFrame

NextCtor ==
    \/ OpenFile
    \/ ConstructReaders
    \/ FirstGetBuffer

SpecCtor == InitPool /\ [][NextCtor]_vars

(***************************************************************************)
(* SpecView: a view reader piped into a buffer writer by the client of     *)
(* src/demos/aio.cpp, on a pool another thread takes leases from as well   *)
(***************************************************************************)
ViewThreads == {"client", "other"}

\* the values a byte can have
ByteValues == {0, 1}

\* the byte sequences the view is opened over
ViewData == UNION {[1..n -> ByteValues] : n \in 0..FileSize}

\* the (offset, size) the view reader is opened with
ViewConfigs == {<<0, nosize>>, <<1, 2>>}

\* the size limits of the buffer writer
SizeLimits == {BufferSize, FileSize}

\* the lease objects of the other thread
OtherSlots == Slots \ {ClientSlot}

\* the member initialisers of writer_base and the constructor of
\* buffer_writer, lines 391-396: buffer_ is the target buffer
BufferWriter(limit) ==
    [mtx_ |-> "free", buffers_ |-> <<>>, error_ |-> FALSE, finalizing_ |-> 0,
     waiting_handlers_ |-> <<>>, buffer_ |-> <<>>, size_limit_ |-> limit]

\* what the lease b holds after view_reader::do_get_buffer line 443 copied
\* into it: the bytes of the view at the offsets read, and whatever memory
\* holds at an offset outside the view
ViewContents(b) ==
    {v \in [1..b.len -> ByteValues] :
        \A i \in 1..b.len :
            Bytes(b)[i] < Len(env.data) => v[i] = env.data[Bytes(b)[i] + 1]}

\* writer_base::add_buffer(buffer_lease&&, event_handler&), lines 33-47, with
\* buffer_writer::do_add_buffer, lines 406-418, and lines 83-94 of the
\* handler; the handler's lease is destroyed when the iteration ends
PipeAddBuffer ==
    /\ ~Crashed
    /\ cl.pc = "have_buffer" /\ writer.mtx_ = "free" /\ th["client"].pc = "idle"
    /\ \E v \in ViewContents(cl.b) :
         LET failed == writer.error_
             over == Wrap(writer.size_limit_ + (nosize + 1) - Len(writer.buffer_))
                       < cl.b.len
             res == IF failed \/ over THEN "error" ELSE "ok"
         IN  /\ writer' = IF failed THEN writer
                          ELSE IF over THEN [writer EXCEPT !.error_ = TRUE]
                          ELSE [writer EXCEPT !.buffer_ = @ \o v]
             /\ accepted' = IF res = "ok" THEN accepted \o Bytes(cl.b) ELSE accepted
             /\ cl' = [cl EXCEPT
                          !.pc = "dropping",
                          !.back = IF res = "error" THEN "stopped"
                                   ELSE IF cl.i + 1 >= HandlerIterations THEN "loop_end"
                                   ELSE "get_buffer",
                          !.i = @ + 1,
                          !.b = NoLease,
                          !.ret = Ret("add_buffer", res)]
    /\ buffers_' = Append(buffers_, cl.b.id)
    /\ th' = [th EXCEPT !["client"] = [IdleLocals EXCEPT !.pc = "sig_begin"]]
    /\ UNCHANGED <<waiting_, waiting_handlers_, active_signalling_, events, leases,
                   wstate, removed, purged, staleDelivery, reader, rw, ww, delivered,
                   env, holders, ascii, ip, made>>

\* line 95 of the handler: the loop is over, the handler sends itself an
\* event
PipeLoopEnd ==
    /\ ~Crashed
    /\ cl.pc = "loop_end"
    /\ events' = Append(events, SelfEvent)
    /\ cl' = [cl EXCEPT !.pc = "idle"]
    /\ UNCHANGED <<buffers_, waiting_, waiting_handlers_, active_signalling_, th, leases,
                   wstate, removed, purged, staleDelivery, reader, writer, rw, ww,
                   delivered, accepted, env, holders, ascii, ip, made>>

\* writer_base::finalize, lines 59-67, with buffer_writer::do_finalize
\* (writer.hpp line 300), and lines 68-81 of the handler
PipeFinalize ==
    /\ ~Crashed
    /\ cl.pc = "eos" /\ writer.mtx_ = "free"
    /\ cl' = [cl EXCEPT !.pc = "stopped",
                        !.success_ = ~writer.error_,
                        !.ret = Ret("finalize", IF writer.error_ THEN "error" ELSE "ok")]
    /\ UNCHANGED <<poolVars, th, leases, wstate, removed, purged, staleDelivery,
                   reader, writer, rw, ww, delivered, accepted, env, holders, ascii, ip, made>>

\* the other thread takes a buffer the pool has
OtherGetBuffer(s) ==
    /\ ~Crashed
    /\ buffers_ # <<>>
    /\ GetBuffer("other", s, "w2")

InitView ==
    /\ holders = NoHolders /\ ascii = FreshLayer /\ ip = NoAddress /\ made = NoReaders
    /\ buffers_ = [i \in 1..BufferCount |-> i]
    /\ waiting_ = <<>>
    /\ waiting_handlers_ = <<>>
    /\ active_signalling_ = NULL
    /\ events = <<SelfEvent>>
    /\ th = [t \in ViewThreads |-> IdleLocals]
    /\ leases = [s \in Slots |-> EmptyLease]
    /\ wstate = [w \in RawWaiters \cup Handlers |-> "idle"]
    /\ removed = {}
    /\ purged = {}
    /\ staleDelivery = FALSE
    /\ delivered = <<>>
    /\ accepted = <<>>
    /\ \E data \in ViewData, c \in ViewConfigs, limit \in SizeLimits :
         /\ ViewReaderOpens(Len(data), c[1], c[2])
         /\ reader = OpenViewReader(Len(data), c[1], c[2])
         /\ env = [faults |-> FALSE, src_len |-> Len(data), data |-> data,
                   offset |-> c[1], size |-> c[2]]
         /\ writer = BufferWriter(limit)
    /\ rw = [pc |-> "done", b |-> NoLease]
    /\ ww = [pc |-> "done", signal |-> FALSE]
    /\ cl = IdleClient

NextView ==
    \/ ClientDispatch
    \/ ViewGetBuffer
    \/ GetBufferAddWaiter("client")
    \/ ViewGetBufferWait
    \/ PipeAddBuffer
    \/ PipeLoopEnd
    \/ PipeFinalize
    \/ ClientAfterRelease
    \/ \E s \in OtherSlots : OtherGetBuffer(s)
    \/ \E s \in OtherSlots : Release("other", s)
    \/ ReleaseEnd("other")
    \/ \E t \in ViewThreads : SignalBegin(t)
    \/ \E t \in ViewThreads : SignalCall(t)
    \/ \E t \in ViewThreads : OnBufferAvailability(t)
    \/ \E t \in ViewThreads : SignalEnd(t)

SpecView == InitView /\ [][NextView]_vars

(***************************************************************************)
(* SpecBuffer: a buffer_writer on a buffer of the client, which may hold   *)
(* bytes already, and a client that adds leases of any size and finalizes  *)
(***************************************************************************)
\* the size limits the writer is opened with
BufferLimits == {BufferSize, BufferSize + 1}
\* bytes the target buffer holds at most in SpecBuffer
MaxTarget == 6

\* the contents of the leases the client hands over
Payloads == UNION {[1..n -> {0, 1}] : n \in 0..BufferSize}

\* buffer_writer::do_add_buffer line 408, in size_t arithmetic: the lease of
\* n bytes does not fit
OverLimit(wr, n) == Wrap(wr.size_limit_ + (nosize + 1) - Len(wr.buffer_)) < n

\* writer_base::add_buffer, lines 33-47, with buffer_writer::do_add_buffer,
\* lines 406-418, for a lease holding the bytes v
BufferAddBuffer(v) ==
    /\ cl.pc = "api" /\ writer.mtx_ = "free"
    /\ Len(writer.buffer_) + Len(v) <= MaxTarget
    /\ LET res == IF writer.error_ THEN "error"
                  ELSE IF v = <<>> THEN "ok"
                  ELSE IF OverLimit(writer, Len(v)) THEN "error"
                  ELSE "ok"
       IN  /\ writer' = IF writer.error_ \/ v = <<>> THEN writer
                        ELSE IF OverLimit(writer, Len(v)) THEN [writer EXCEPT !.error_ = TRUE]
                        ELSE [writer EXCEPT !.buffer_ = @ \o v]
           /\ accepted' = IF res = "ok" THEN accepted \o v ELSE accepted
           /\ cl' = [cl EXCEPT !.req = <<0, Len(v)>>, !.ret = Ret("add_buffer", res)]
    /\ UNCHANGED <<poolVars, th, leases, wstate, removed, purged, staleDelivery,
                   reader, rw, ww, delivered, env, holders, ascii, ip, made>>

\* writer_base::finalize, lines 59-67, with buffer_writer::do_finalize
\* (writer.hpp line 300)
BufferFinalize ==
    /\ cl.pc = "api" /\ writer.mtx_ = "free"
    /\ cl' = [cl EXCEPT !.ret = Ret("finalize", IF writer.error_ THEN "error" ELSE "ok")]
    /\ UNCHANGED <<poolVars, th, leases, wstate, removed, purged, staleDelivery,
                   reader, writer, rw, ww, delivered, accepted, env, holders, ascii, ip, made>>

\* the buffer is empty when the writer is opened, or holds one byte, or
\* more bytes than the limit
InitBuffer ==
    /\ InitShared
    /\ events = <<>>
    /\ reader = FreshReader("file", nosize)
    /\ rw = [pc |-> "done", b |-> NoLease]
    /\ ww = [pc |-> "done", signal |-> FALSE]
    /\ cl = [IdleClient EXCEPT !.pc = "api"]
    /\ \E limit \in BufferLimits : \E held \in {0, 1, limit + 1} :
         /\ writer = [BufferWriter(limit) EXCEPT !.buffer_ = [i \in 1..held |-> 0]]
         /\ env = [faults |-> FALSE, src_len |-> 0, prefix |-> [i \in 1..held |-> 0]]

NextBuffer ==
    \/ \E v \in Payloads : BufferAddBuffer(v)
    \/ BufferFinalize

SpecBuffer == InitBuffer /\ [][NextBuffer]_vars

(***************************************************************************)
(* Claims about the pool and the waitable protocol                         *)
(***************************************************************************)
\* a lease that holds a buffer: pool_ is set and the lease is not inside
\* release(), where the buffer is already back in the free list while pool_
\* is cleared only after the pool's release has returned
LiveLeases == {s \in Slots : leases[s].pool
                               /\ ~\E t \in DOMAIN th : InRelease(t) /\ th[t].slot = s}

NoReleaseInProgress == \A t \in DOMAIN th : ~InRelease(t)

\* C1: in every state of the running process the free list and the live
\* leases together hold each of the buffer_count buffers exactly once.
C1_BoundedInventory ==
    ~Crashed =>
        /\ Len(buffers_) + Cardinality(LiveLeases) = BufferCount
        /\ \A i, j \in 1..Len(buffers_) : i # j => buffers_[i] # buffers_[j]
        /\ \A s1, s2 \in LiveLeases : s1 # s2 => leases[s1].buf # leases[s2].buf
        /\ \A s \in LiveLeases : leases[s].buf \notin Range(buffers_)

\* a move assignment whose target's old buffer is back in the free list is
\* under way while its source lease and a waiter registration exist
C1_Witness ==
    \E t \in DOMAIN th :
        /\ InRelease(t) /\ th[t].src # 0
        /\ leases[th[t].src].pool
        /\ Len(buffers_) = 1
        /\ waiting_ # <<>>

\* C3: no lost wake-up. With no release in progress, a party that waits
\* un-notified coexists with free buffers only as far as each free buffer is
\* matched by a party that was notified and has not yet called get_buffer
\* again, or that withdrew. (The claim asks for more, an empty free list; this
\* is the part of it that a check-and-register under one lock guarantees.)
C3_WaiterNotifiedAfterRelease ==
    (/\ ~Crashed
     /\ NoReleaseInProgress
     /\ \E p \in DOMAIN wstate : wstate[p] = "waiting")
    => Len(buffers_) <= Cardinality({p \in DOMAIN wstate :
                                        wstate[p] = "notified" \/ p \in removed})

\* C4: a call of signal_availibility notifies at most one party, exactly one
\* if a waiter or handler was registered when it took the lock, and takes no
\* other registration off the lists.
C4_SingleSignalInv ==
    \A t \in DOMAIN th :
        /\ th[t].n <= 1
        /\ th[t].pc = "rel_end" => th[t].n = (IF th[t].had THEN 1 ELSE 0)

C4_SingleSignalStep ==
    \A t \in DOMAIN th :
        (th[t].pc = "sig_begin" /\ th'[t].pc \in {"sig_call", "rel_end"}) =>
            /\ waiting_' \in {waiting_, PopBack(waiting_)}
            /\ waiting_handlers_' \in {waiting_handlers_, PopBack(waiting_handlers_)}
            /\ Len(waiting_') + Len(waiting_handlers_') =
                   Len(waiting_) + Len(waiting_handlers_) - (IF th'[t].had THEN 1 ELSE 0)
            /\ \A p \in Range(waiting_') \cup Range(waiting_handlers_') :
                   wstate'[p] = wstate[p]

C4_SingleSignal == []C4_SingleSignalInv /\ [][C4_SingleSignalStep]_vars

\* two waiters were registered, one release has notified one of them and
\* returned, the other is still registered and un-notified
C4_Witness ==
    /\ \E t \in DOMAIN th : th[t].pc = "rel_end" /\ th[t].n = 1
    /\ Len(waiting_) = 1
    /\ \E p \in RawWaiters : wstate[p] = "notified"
    /\ \E p \in RawWaiters : wstate[p] = "waiting" /\ p \in Range(waiting_)

\* C5: once remove_waiter(w) has returned, no on_buffer_availability of w is
\* running or started by the pool (until w registers again).
C5_RemoveWaiterExcludesCallback ==
    \A w \in RawWaiters :
        w \in removed => ~\E t \in DOMAIN th : th[t].pc = "sig_cb" /\ th[t].cb = w

\* C6: after remove_waiter(h) has returned the loop's queue holds no
\* availability event of the pool for h, h is not in the handler list and no
\* such event is delivered to h; the call leaves every other event in the
\* queue, in order.
C6_NoStaleEventInv ==
    /\ ~staleDelivery
    /\ \A h \in removed \cap Handlers :
          /\ PoolEvent(h) \notin Range(events)
          /\ h \notin Range(waiting_handlers_)

C6_OthersKeptStep ==
    \A h \in Handlers :
        (h \in removed' /\ h \notin removed) =>
            SelectSeq(events', LAMBDA ev : ev # PoolEvent(h))
              = SelectSeq(events, LAMBDA ev : ev # PoolEvent(h))

C6_HandlerWithdrawal == []C6_NoStaleEventInv /\ [][C6_OthersKeptStep]_vars

\* remove_waiter(h) took a posted pool event for h out of the queue, left
\* another event for h in it, and a signal_availibility is running meanwhile
C6_Witness ==
    /\ "h1" \in removed /\ "h1" \in purged
    /\ \E i \in 1..Len(events) : events[i].h = "h1"
    /\ \E t \in DOMAIN th : th[t].pc = "sig_begin"

(***************************************************************************)
(* Claims about the reader, the writer and the pipeline                    *)
(***************************************************************************)
\* the client's handler has returned and no event is pending for it
ClientParked == cl.pc = "idle" /\ events = <<>> /\ th["client"].pc = "idle"
\* a worker has left, or waits on its condition with no signal pending
ReaderWorkerParked ==
    th["rworker"].pc = "idle" /\ (rw.pc = "done" \/ (rw.pc = "wait" /\ ~reader.signalled_))
WriterWorkerParked ==
    th["wworker"].pc = "idle" /\ (ww.pc = "done" \/ (ww.pc = "wait" /\ ~writer.signalled_))

\* C2: with a pool of at least the sum of the min_buffer_usage of reader and
\* writer and no failing file operation, the protocol-following client never
\* gets stuck before finalize has returned ok: there is no state in which the
\* client and both workers are parked while the pool has a free buffer or a
\* queue holds a buffer.
C2_NoStall ==
    (/\ BufferCount >= 2 * min_buffer_usage
     /\ ~env.faults
     /\ ~cl.success_
     /\ ClientParked /\ ReaderWorkerParked /\ WriterWorkerParked)
    => /\ buffers_ = <<>>
       /\ reader.buffers_ = <<>>
       /\ writer.buffers_ = <<>>

\* C7: the lease queue of the reader and of the threaded writer never holds
\* more than max_buffers leases while the client keeps to the protocol.
C7_QueueBounded ==
    /\ Len(reader.buffers_) <= ReaderMaxBuffers
    /\ Len(writer.buffers_) <= WriterMaxBuffers

\* the reader's queue is full after its worker appended a buffer it had
\* filled without the mutex, the worker waits for room, and the writer has
\* taken a buffer from the client
C7_Witness ==
    /\ Len(reader.buffers_) = ReaderMaxBuffers
    /\ rw.pc = "wait"
    /\ writer.buffers_ # <<>>
    /\ cl.ret.op = "add_buffer"

\* the source has fewer bytes than the range the file reader was given
ShortSource ==
    /\ reader.kind = "file"
    /\ reader.size_ # nosize
    /\ reader.start_offset_ + reader.size_ > env.src_len

\* C8: when get_buffer reports end-of-stream on a reader of known size, the
\* leases delivered since the reader was positioned hold size_ bytes in all;
\* when the source is shorter than the range, the reader never reaches eof
\* nor reports end-of-stream, and a worker that stopped by itself left the
\* error flag set.
C8_KnownSizeDelivered ==
    /\ (cl.pc = "eos" /\ reader.size_ # nosize) => Len(delivered) = reader.size_
    /\ ShortSource =>
          /\ cl.pc # "eos"
          /\ ~reader.eof_
          /\ (rw.pc = "done" /\ ~reader.quit_ /\ ~(cl.pc = "stopped" /\ cl.ret.op \in {"seek", "rewind"}))
                => reader.error_

\* end-of-stream on a file reader that was repositioned to a range of two
\* bytes after it had handed out a buffer of its first range
C8_Witness ==
    /\ cl.pc = "eos" /\ cl.ret = [op |-> "get_buffer", res |-> "ok", k |-> cl.ret.k]
    /\ reader.kind = "file" /\ rw.pc = "done"
    /\ reader.start_offset_ = 1 /\ reader.size_ = 2
    /\ cl.seeks = 1 /\ cl.held # <<>>
    /\ Len(delivered) = 2

\* the number of bytes of the source the reader reads from
SourceLength == IF reader.kind = "view" THEN reader.max_size_ ELSE env.src_len

\* C9: the bytes delivered since the reader was positioned are bytes of the
\* source, consecutive and in increasing order from start_offset, and no
\* more than size_ of them: a prefix of [start_offset, start_offset + size).
C9_ConsecutiveFromStart ==
    /\ \A i \in 1..Len(delivered) :
          /\ delivered[i] = reader.start_offset_ + i - 1
          /\ delivered[i] < SourceLength
    /\ reader.size_ # nosize => Len(delivered) <= reader.size_

\* C10: finalize has returned ok only if the writer's queue is empty, the
\* file holds exactly the accepted bytes in the order they were accepted,
\* and fsync has succeeded when it was asked for.
C10_FinalizeOkMeansWritten ==
    (cl.ret.op = "finalize" /\ cl.ret.res = "ok") =>
        /\ writer.buffers_ = <<>>
        /\ writer.file_ = accepted
        /\ writer.fsync_ => writer.synced_

(***************************************************************************)
(* Claims about finalize, set_mtime and close of the file writer           *)
(***************************************************************************)
\* the client has just returned from the call op
Returned(op) == cl'.ret # cl.ret /\ cl'.ret.op = op

\* the events of the writer pending for the client's handler
WriterEventsIn(q) == Len(SelectSeq(q, LAMBDA ev : ev = WriterEvent))

\* the client handed in all its data before it called finalize, and has not
\* closed the writer
OrderlyClient == ~cl.late /\ ~writer.quit_

\* C11 in states: on a writer with fsync used by a client that adds no
\* buffer after its finalize call, the finalize waiter stays registered
\* and the worker has work left or a wake-up pending until the worker
\* completes the finalization, the waiter is no longer registered and
\* has at most one event once it is complete, a completed finalization
\* without error means the fsync succeeded, and once finalize has returned
\* ok set_mtime reaches the file.
C11_FsyncFinalizeInv ==
    (writer.fsync_ /\ OrderlyClient) =>
        /\ (writer.finalizing_ = 1 /\ ~writer.error_)
              => /\ ClientHandler \in Range(writer.waiting_handlers_)
                 /\ ~WriterWorkerParked
        /\ writer.finalizing_ = 2
              => /\ ClientHandler \notin Range(writer.waiting_handlers_)
                 /\ WriterEventsIn(events) <= 1
                 /\ writer.buffers_ = <<>>
                 /\ ~writer.error_ => writer.synced_
        /\ cl.success_ => set_mtime(writer)

\* C11 in steps: the first finalize call returns wait; while a finalize is
\* pending the writer notifies only in the step that completes the
\* finalization, with the queue drained and the fsync done; a finalize call
\* on the completed writer returns ok unless the fsync failed.
C11_FsyncFinalizeStep ==
    (writer.fsync_ /\ OrderlyClient) =>
        /\ (Returned("finalize") /\ writer.finalizing_ = 0 /\ ~writer.error_)
              => cl'.ret.res = "wait"
        /\ (writer.finalizing_ # 0 /\ WriterEventsIn(events') > WriterEventsIn(events))
              => /\ writer.finalizing_ = 1 /\ writer'.finalizing_ = 2
                 /\ writer'.buffers_ = <<>>
                 /\ writer'.synced_ \/ writer'.error_
        /\ (Returned("finalize") /\ writer.finalizing_ = 2 /\ writer.synced_)
              => cl'.ret.res = "ok"
        /\ (Returned("set_mtime") /\ cl.success_)
              => (cl'.ret.res = "true" \/ env.faults)

\* C11: on a file writer with fsync, after the client's last add_buffer the
\* first finalize returns wait, its waiter is notified exactly once, when
\* the worker has drained the queue and done the fsync, a finalize call
\* after that returns ok if the fsync succeeded, and set_mtime is then
\* accepted.
C11_FsyncFinalize == []C11_FsyncFinalizeInv /\ [][C11_FsyncFinalizeStep]_vars

\* data went through a writer with fsync: finalize returned wait, the client
\* was notified, finalize returned ok and set_mtime was accepted
C11_Witness ==
    /\ writer.fsync_ /\ OrderlyClient /\ ~env.faults
    /\ accepted # <<>> /\ writer.file_ = accepted
    /\ cl.success_ /\ writer.mtime_
    /\ cl.ret = [cl.ret EXCEPT !.op = "set_mtime", !.res = "true"]

\* C12: set_mtime is refused as long as no finalize call has returned ok,
\* and once a finalize call has returned ok the writer is fully finalized
\* (finalizing_ = 2) and set_mtime reaches the file, with or without fsync.
C12_SetMtimeIffFinalized ==
    OrderlyClient =>
        /\ ~cl.success_ => ~set_mtime(writer)
        /\ cl.success_ => (writer.finalizing_ = 2 /\ set_mtime(writer))

\* a finalize call made after an earlier one returned ok returns ok and
\* leaves the writer, the loop's events and the pool as they were
FinalizeIsNoOp ==
    (Returned("finalize") /\ cl.success_) =>
        /\ cl'.ret.res = "ok"
        /\ writer' = writer
        /\ events' = events
        /\ UNCHANGED poolVars

WriterClosed == cl.ret.op = "close"

C17_WaiterNotified ==
    (OrderlyClient /\ ww.pc = "done") =>
        ClientHandler \notin Range(writer.waiting_handlers_)

(***************************************************************************)
(* Claims about the error flag                                             *)
(***************************************************************************)
\* the error flag of reader and writer is never cleared
ErrorSticks == (reader.error_ => reader'.error_) /\ (writer.error_ => writer'.error_)

\* the calls on a failed writer: add_buffer, finalize and preallocate return
\* error, set_mtime returns false
FailedWriterRefuses ==
    writer.error_ =>
        /\ (Returned("add_buffer") \/ Returned("finalize") \/ Returned("preallocate"))
              => cl'.ret.res = "error"
        /\ Returned("set_mtime") => cl'.ret.res = "false"

SeekCalled == cl'.seeks = cl.seeks + 1
CalledOffset == SeekOffset(reader, cl'.req[1])
CalledSize == SeekSize(reader, cl'.req[1], cl'.req[2])

\* the range cannot be served: it ends behind max_size, or offset + size
\* overflows or reaches nosize
RangeUnfulfillable ==
    CalledSize # nosize /\ (CalledOffset + CalledSize >= nosize
                              \/ CalledOffset + CalledSize > reader.max_size_)

\* the reader cannot be positioned a second time or away from the beginning
NotSeekableThere ==
    ~seekable(reader) /\ (CalledOffset # 0 \/ reader.start_offset_ # nosize)

\* a seek or rewind call has returned
SeekReturned == Returned("seek") \/ Returned("rewind")

\* the call returns false at once; queue, range and worker stay as they are
SeekFailsUntouched ==
    /\ SeekReturned /\ cl'.ret.res = "false"
    /\ reader' = reader /\ rw' = rw /\ UNCHANGED poolVars

C15_ViewCopy ==
    (/\ env.offset = 0 /\ env.size = nosize
     /\ writer.size_limit_ >= Len(env.data)
     /\ cl.ret.op = "finalize" /\ cl.ret.res = "ok")
    => writer.buffer_ = env.data

\* C18: a client whose get_buffer on a view reader returned wait is notified
\* once a lease has come back: with no call and no notification under way,
\* the client's handler is not left registered at a reader that is itself no
\* longer registered at the pool.
C18_ViewWaiterNotified ==
    (/\ ~Crashed
     /\ \A t \in DOMAIN th : th[t].pc = "idle"
     /\ cl.pc = "idle" /\ events = <<>>
     /\ ClientHandler \in Range(reader.waiting_handlers_))
    => ReaderWaiter \in Range(waiting_)

(***************************************************************************)
(* Claims about close                                                      *)
(***************************************************************************)
\* close of the reader, of the writer, has returned at least once
ReaderClosed == "reader" \in cl.shut
WriterShut == "writer" \in cl.shut

\* C19 in states: a closed reader or writer holds no lease and has no waiter,
\* a closed reader is not a waiter of the pool and its worker holds no lease;
\* with both closed the free list holds all buffer_count buffers.
C19_ClosedInv ==
    /\ ReaderClosed =>
          /\ reader.buffers_ = <<>> /\ rw.b = NoLease
          /\ reader.waiting_handlers_ = <<>>
          /\ ReaderWaiter \notin Range(waiting_)
    /\ WriterShut =>
          /\ writer.buffers_ = <<>>
          /\ writer.waiting_handlers_ = <<>>
    /\ (ReaderClosed /\ WriterShut) =>
          /\ Len(buffers_) = BufferCount
          /\ Range(buffers_) = Buffers

\* C19 in steps: once reader and writer have been closed, closing them again
\* changes neither the pool nor the queues, waiter lists and file of reader
\* and writer nor the pending events.
C19_SecondCloseStep ==
    (ReaderClosed /\ WriterShut) =>
        /\ UNCHANGED <<buffers_, waiting_, waiting_handlers_, events>>
        /\ reader'.buffers_ = reader.buffers_
        /\ reader'.waiting_handlers_ = reader.waiting_handlers_
        /\ writer'.buffers_ = writer.buffers_
        /\ writer'.waiting_handlers_ = writer.waiting_handlers_
        /\ writer'.file_ = writer.file_ /\ writer'.present_ = writer.present_

\* C19: after close a reader or writer holds no lease, is registered nowhere
\* and has no waiters; once both are closed and the client holds no lease
\* the pool's free list holds buffer_count buffers; a second close changes
\* nothing.
C19_CloseReleasesAll == []C19_ClosedInv /\ [][C19_SecondCloseStep]_vars

\* reader and writer were closed in the middle of a transfer, with data the
\* writer had accepted and not written, and the writer is being closed a
\* second time
C19_Witness ==
    /\ ReaderClosed /\ WriterShut /\ cl.pc = "close_clear"
    /\ ~cl.success_ /\ ~env.faults
    /\ delivered # <<>> /\ writer.file_ # accepted
    /\ Len(buffers_) = BufferCount

(***************************************************************************)
(* Claims about rewind and the effect of seek                              *)
(***************************************************************************)
\* the offset the reader starts at: 0 while start_offset_ was never set
StartOffset(r) == IF r.start_offset_ = nosize THEN 0 ELSE r.start_offset_

\* a rewind is running or was the client's last positioning call: it leaves
\* the range as it was
RewindKeepsRange ==
    cl'.sk \in {"rewind", "rewound"} =>
        /\ StartOffset(reader') = StartOffset(reader)
        /\ reader'.size_ = reader.size_

\* what get_buffer delivered after a rewind of a seekable reader that
\* returned true: the bytes of
\* the range from its start on, all of them at end-of-stream
SecondPass ==
    (cl.sk = "rewound" /\ seekable(reader)) =>
        /\ \A i \in 1..Len(delivered) :
              delivered[i] = reader.start_offset_ + i - 1 /\ delivered[i] < SourceLength
        /\ cl.pc = "eos" => Len(delivered) = reader.size_

\* C21: on a seekable reader rewind returns true (false exactly when the
\* reader's error flag is set or the file could not be positioned); it keeps
\* the range, and after it returned true the bytes delivered are the bytes of
\* the range from its first byte on, whatever was delivered before.
C21_RewindReplaysUnlessFailed ==
    /\ [][/\ RewindKeepsRange
          /\ (Returned("rewind") /\ seekable(reader)) =>
                (cl'.ret.res = "false" <=>
                    (reader.error_ \/ (cl.pc = "seek_join" /\ cl'.pc = "stopped")))]_vars
    /\ []SecondPass

\* lines 88-96: the size a seek to (o, s) gives the reader, a nosize s
\* standing for the rest of the source
SeekEffectiveSize(r, o, s) ==
    IF s # nosize THEN s
    ELSE IF r.max_size_ # nosize THEN Wrap(r.max_size_ + nosize + 1 - o)
    ELSE nosize

\* the seek just called asks for the range the reader has, and no buffer has
\* been handed out since the reader was positioned
SeekToSame ==
    /\ SeekCalled
    /\ CalledOffset = reader.start_offset_
    /\ SeekEffectiveSize(reader, CalledOffset, CalledSize) = reader.size_
    /\ ~reader.get_buffer_called_

\* nothing of the reader, its worker or the pool's registrations changes
SeekTouchesNothing ==
    /\ reader' = reader /\ rw' = rw
    /\ UNCHANGED <<buffers_, waiting_, waiting_handlers_, events, delivered>>

\* the state in which do_seek starts
SeekCleared(r, w) ==
    /\ r.buffers_ = <<>> /\ r.waiting_handlers_ = <<>>
    /\ ReaderWaiter \notin Range(w)
    /\ r.remaining_ = r.size_ /\ r.eof_ = (r.size_ = 0)
    /\ ~r.get_buffer_called_

\* any other seek that is not refused goes through lines 82-99 and leaves the
\* reader cleared when do_seek starts, and while do_seek waits for the worker
SeekOtherClears ==
    /\ (SeekCalled /\ ~SeekToSame /\ ~SeekReturned) => cl'.pc = "seek_remove"
    /\ (SeekCalled /\ ~SeekToSame /\ SeekReturned) => cl'.ret.res = "false"
    /\ (cl.pc = "seek_remove" /\ cl'.pc # "seek_remove") => SeekCleared(reader', waiting_')
    /\ cl'.pc = "seek_join" => SeekCleared(reader', waiting_')

\* C22: a seek to the range the reader has, with no buffer handed out since
\* the last positioning, returns true (false with the error flag set) and
\* changes nothing; any other accepted seek leaves the reader with an empty
\* queue, no waiters, no registration at the pool, remaining_ = size_,
\* eof = (size_ = 0) and get_buffer_called cleared when do_seek runs.
C22_SeekEffectNoError ==
    [][/\ SeekToSame => /\ SeekReturned /\ SeekTouchesNothing
                        /\ cl'.ret.res = (IF reader.error_ THEN "false" ELSE "true")
       /\ SeekOtherClears]_vars

\* a step of a seek or rewind call, from the call to its return
SeekStep == SeekCalled \/ cl.pc \in {"seek_remove", "seek_join"}

\* the seek call has returned true with this step
SeekSucceeded == SeekReturned /\ cl'.ret.res = "true"

\* C23: seek(nosize, nosize) that returns true leaves start_offset (0 if it
\* was never set) and size_ as they were, whether or not buffers had been
\* handed out; seek(nosize, s) keeps the offset and sets size_ = s; and
\* seek(o, nosize) sets start_offset = o and size_ to the rest of the source.
C23_NosizeKeeps ==
    [][/\ (SeekStep /\ cl'.req[1] = nosize) => StartOffset(reader') = StartOffset(reader)
       /\ (SeekStep /\ cl'.req = <<nosize, nosize>>) => reader'.size_ = reader.size_
       /\ (SeekSucceeded /\ cl'.req[1] = nosize) =>
              /\ reader'.start_offset_ = StartOffset(reader)
              /\ cl'.req[2] # nosize => reader'.size_ = cl'.req[2]
       /\ (SeekSucceeded /\ cl'.req[1] # nosize /\ cl'.req[2] = nosize) =>
              /\ reader'.start_offset_ = cl'.req[1]
              /\ reader'.size_ = IF reader.max_size_ = nosize THEN nosize
                                 ELSE reader.max_size_ - cl'.req[1]]_vars

(***************************************************************************)
(* Claims about add_buffer and preallocate                                 *)
(***************************************************************************)
\* add_buffer has returned on a writer whose error flag was not set; the
\* number of bytes in the lease it was called with, 0 for an empty lease
AddBufferCalled == Returned("add_buffer") /\ ~writer.error_
AddedBytes == cl'.req[2]

\* C24: on a writer without error, add_buffer with an empty lease or an
\* empty buffer returns ok and changes neither queue, waiters nor lease;
\* with a non-empty lease it appends the lease to the queue, returns wait and
\* registers the waiter exactly when the queue has then max_buffers entries
\* or more, returns ok otherwise, and wakes the worker when the queue was
\* empty.
C24_AddBuffer ==
    [][AddBufferCalled =>
         IF AddedBytes = 0
         THEN /\ cl'.ret.res = "ok"
              /\ writer' = writer
              /\ UNCHANGED <<leases, events, buffers_, accepted>>
         ELSE /\ Len(writer'.buffers_) = Len(writer.buffers_) + 1
              /\ SubSeq(writer'.buffers_, 1, Len(writer.buffers_)) = writer.buffers_
              /\ Back(writer'.buffers_).id = leases[ClientSlot].buf
              /\ Back(writer'.buffers_).len = AddedBytes
              /\ leases'[ClientSlot] = EmptyLease
              /\ cl'.ret.res = (IF Len(writer'.buffers_) >= WriterMaxBuffers
                                THEN "wait" ELSE "ok")
              /\ writer'.waiting_handlers_ =
                     (IF cl'.ret.res = "wait"
                      THEN Append(writer.waiting_handlers_, ClientHandler)
                      ELSE writer.waiting_handlers_)
              /\ writer.buffers_ = <<>> => writer'.signalled_]_vars

\* add_buffer returned wait for the lease that filled the queue
C24_Witness ==
    /\ cl.ret.op = "add_buffer" /\ cl.ret.res = "wait"
    /\ cl.req[2] > 0 /\ Len(writer.buffers_) = WriterMaxBuffers
    /\ writer.waiting_handlers_ = <<ClientHandler>>
    /\ ~leases[ClientSlot].pool

(***************************************************************************)
(* Claims about freshly opened readers                                     *)
(***************************************************************************)
\* the reader was opened without an offset and has not been positioned since
OpenedAtDefault == env.offset = 0 /\ cl.seeks = 0

\* nothing has been called on the reader and its worker has not run yet
FreshlyOpened ==
    /\ cl.ret.op = "none" /\ ~reader.get_buffer_called_
    /\ rw.pc \in {"start", "done"}

\* C25: a reader opened without an offset override has start_offset = 0,
\* when fresh remaining_ = size_ and eof = (remaining_ = 0), and the first
\* byte it delivers is byte 0 of the source.
C25_FreshReaderAtZero ==
    OpenedAtDefault =>
        /\ reader.start_offset_ = 0
        /\ FreshlyOpened => /\ reader.remaining_ = reader.size_
                            /\ reader.eof_ = (reader.remaining_ = 0)
        /\ delivered # <<>> => delivered[1] = 0

(***************************************************************************)
(* Claims about the factory holders                                        *)
(***************************************************************************)
\* the operation just made, its target and its source
HolderOp == holders'.last[1]
Target == holders'.last[2]
Source == holders'.last[3]

\* the target owns a new factory object with the name of the source's, and
\* the objects that existed are as they were
OwnClone ==
    /\ holders'.impl_[Target] > Len(holders.factories)
    /\ holders'.impl_[Target] <= Len(holders'.factories)
    /\ holders'.factories[holders'.impl_[Target]] = holders.factories[holders.impl_[Source]]
    /\ SubSeq(holders'.factories, 1, Len(holders.factories)) = holders.factories

\* C26: after a copy (constructor or assignment) the target owns its own
\* clone of the source's factory, or nothing if the source owns nothing, and
\* the source is unchanged; after a move the source owns nothing and the
\* target owns what the source owned. In particular assigning from a null
\* holder leaves the target null.
C26_CopyCloneMoveTransfer ==
    [][/\ (HolderOp \in {"copy", "copy_assign"} /\ Target # Source) =>
              /\ holders'.impl_[Source] = holders.impl_[Source]
              /\ IF holders.impl_[Source] = 0
                 THEN holders'.impl_[Target] = 0
                 ELSE OwnClone
       /\ (HolderOp \in {"move", "move_assign"} /\ Target # Source) =>
              /\ holders'.impl_[Source] = 0
              /\ holders'.impl_[Target] = holders.impl_[Source]
              /\ holders'.factories = holders.factories]_vars

\* the file as preallocate can change it, and the flag
PreallocUntouched ==
    /\ writer'.file_ = writer.file_ /\ writer'.alloc_ = writer.alloc_
    /\ writer'.preallocated_ = writer.preallocated_

\* C27: preallocate returns error and leaves file and flag alone when the
\* writer is not streaming; it returns error whenever one of its file steps
\* fails, so that when it returns ok the seek to position + size and the
\* truncate there have worked and the file's space ends there; when it
\* returns ok the file position is the one before the call and the writer
\* is marked preallocated.
C27_Preallocate ==
    [][Returned("preallocate") =>
         /\ NotStreaming(writer) => (cl'.ret.res = "error" /\ PreallocUntouched)
         /\ cl'.ret.res = "ok" => /\ writer'.alloc_ = Position(writer) + PreallocSize
                                  /\ Position(writer') = Position(writer)
                                  /\ writer'.preallocated_]_vars

(***************************************************************************)
(* Claims about buffer_writer                                              *)
(***************************************************************************)
\* C28: a buffer_writer with size limit L never makes the buffer hold more
\* than L bytes; add_buffer with a lease of n bytes on a buffer of s bytes
\* appends them and returns ok if s + n <= L, else appends nothing, sets the
\* error flag and returns error (for a lease that holds bytes, on a writer
\* without error); it never returns wait; finalize returns ok unless the
\* error flag is set. What the buffer holds is what it held at first
\* followed by the bytes of the leases taken.
C28_BufferLimit ==
    /\ [](writer.buffer_ = env.prefix \o accepted)
    /\ [][/\ Len(writer'.buffer_) > Len(writer.buffer_) =>
                Len(writer'.buffer_) <= writer.size_limit_
          /\ (Returned("add_buffer") /\ ~writer.error_ /\ AddedBytes > 0) =>
                IF Len(writer.buffer_) + AddedBytes <= writer.size_limit_
                THEN /\ cl'.ret.res = "ok"
                     /\ Len(writer'.buffer_) = Len(writer.buffer_) + AddedBytes
                     /\ ~writer'.error_
                ELSE /\ cl'.ret.res = "error"
                     /\ writer'.buffer_ = writer.buffer_
                     /\ writer'.error_
          /\ Returned("add_buffer") => cl'.ret.res # "wait"
          /\ Returned("finalize") =>
                cl'.ret.res = (IF writer.error_ THEN "error" ELSE "ok")]_vars

\* the worker called the progress callback in this step, and the count it
\* passed
ProgressCalled == writer'.progress # writer.progress
ProgressCount == writer'.progress - writer.progress

\* the bytes the file received in this step
PhysicallyWritten == Len(writer'.file_) - Len(writer.file_)

FinalizeReturnedOk == Returned("finalize") /\ cl'.ret.res = "ok"

\* C29: on a file writer the sum of the counts passed to the progress
\* callback never decreases; each callback is made by the worker for a write
\* to the file of exactly the reported, positive number of bytes; and when
\* finalize returns ok the sum is the number of bytes in the buffers
\* add_buffer accepted
C29_ProgressSum ==
    [][/\ writer'.progress >= writer.progress
       /\ ProgressCalled => /\ ww.pc = "write"
                            /\ ProgressCount > 0
                            /\ ProgressCount = PhysicallyWritten
                            /\ ~writer'.error_
       /\ FinalizeReturnedOk => writer'.progress = Len(accepted')]_vars

\* the class comment of ascii_layer: the stream in with every LF that is not
\* preceded by CR turned into CR LF, was_cr telling whether the byte before
\* the stream was CR
RECURSIVE CrLfStream(_, _)
CrLfStream(in, was_cr) ==
    IF in = <<>> THEN <<>>
    ELSE (IF Head(in) = LF /\ ~was_cr THEN <<CR, LF>> ELSE <<Head(in)>>)
             \o CrLfStream(Tail(in), Head(in) = CR)

IsPrefix(s, t) == Len(s) <= Len(t) /\ s = SubSeq(t, 1, Len(s))

\* C30: while the socket has not failed, the bytes the next layer took are
\* the start of the bytes of the successful write calls with every LF not
\* preceded by CR (also across calls) sent as CR LF and every other byte
\* unchanged, and they are all of them once buffer_ is empty
C30_LfBecomesCrLf ==
    ~ascii.failed =>
        /\ IsPrefix(ascii.wire, CrLfStream(ascii.input, FALSE))
        /\ ascii.buffer_ = <<>> => ascii.wire = CrLfStream(ascii.input, FALSE)

(***************************************************************************)
(* Claims about get_ipv6_long_form                                         *)
(***************************************************************************)
\* the number of positions at which "::" starts in s
DoubleColons(s) ==
    Cardinality({i \in 1..(Len(s) - 1) : s[i] = ":" /\ s[i + 1] = ":"})

\* 39 characters: eight groups of four hex digits with ':' between them
FullForm(s) ==
    /\ Len(s) = 39
    /\ \A i \in 1..39 : IF i % 5 = 0 THEN s[i] = ":"
                        ELSE s[i] \in HexDigits \cup UpperHexDigits

\* s without the brackets around it, if it has them
Unbracketed(s) ==
    IF Len(s) >= 2 /\ s[1] = "[" /\ Back(s) = "]" THEN SubSeq(s, 2, Len(s) - 1) ELSE s

\* C31 as stated: a full-form address is returned as it is, a non-empty
\* result is returned as it is, and an argument with two "::" or of more than
\* 39 characters is refused.
C31_LongFormIdempotent ==
    ip.calls > 0 =>
        /\ FullForm(ip.in) => ip.out = ip.in
        /\ ip.calls > 1 => ip.out = ip.in
        /\ (DoubleColons(ip.in) >= 2 \/ Len(ip.in) > 39) => ip.out = <<>>

\* C31 amended: a full-form address is returned with its hex digits in lower
\* case, and the limit of 39 characters is on the address between the
\* optional brackets.
C31_LongFormLowerCase ==
    ip.calls > 0 =>
        /\ FullForm(ip.in) => ip.out = Lowered(ip.in)
        /\ ip.calls > 1 => ip.out = ip.in
        /\ (DoubleColons(ip.in) >= 2 \/ Len(Unbracketed(ip.in)) > 39) => ip.out = <<>>

\* a short address with one "::" was expanded and the result, given back to
\* the function, has come out unchanged
C31_Witness ==
    /\ ip.calls = 3 /\ ip.out = ip.in /\ FullForm(ip.out)
    /\ ip.out[1] = "0" /\ ip.out[39] = "b"

(***************************************************************************)
(* Claims about the mutexes                                                *)
(***************************************************************************)
\* thread t holds the mutex of the reader or of the writer
HoldsComponentMutex(t) == reader.mtx_ = t \/ writer.mtx_ = t

\* thread t is inside a call into the pool and about to take the mutex of the
\* pool's waiter lists: in get_buffer before add_waiter, in release before
\* signal_availibility, or in signal_availibility after a callback
TakesPoolMutex(t) == th[t].pc \in {"gb_add", "gbh_add", "sig_begin", "sig_end"}

\* C32: no thread that holds the mutex of a reader or writer takes a mutex of
\* the pool.
C32_LocksNotNested ==
    \A t \in DOMAIN th : ~(HoldsComponentMutex(t) /\ TakesPoolMutex(t))

\* a worker's file operation returns in this step: the read of the reader's
\* worker, the write of the writer's worker, the fsync that completes a
\* finalize
ReadStep == rw.pc = "read" /\ rw' # rw
WriteStep == ww.pc = "write" /\ (ww' # ww \/ writer' # writer)
FsyncStep == writer.fsync_ /\ writer.finalizing_ = 1 /\ writer'.finalizing_ = 2

\* C33: a worker does not hold its component's mutex while its read, write
\* or fsync is in progress: the mutex was dropped before the operation and is
\* taken again after it.
C33_NoMutexAcrossFileOps ==
    [][/\ ReadStep => reader.mtx_ # "rworker"
       /\ WriteStep => writer.mtx_ # "wworker"
       /\ FsyncStep => writer.mtx_ # "wworker"]_vars

(***************************************************************************)
(* Claims about signal_availibility                                        *)
(***************************************************************************)
\* thread t is inside the on_buffer_availability call of line 127
InCallback(t) == th[t].pc = "sig_cb"

\* what another thread u can do on the pool at this moment: get_buffer for a
\* waiter w into the free lease s, the add_waiter of a get_buffer that found
\* the free list empty, release of the lease s, remove_waiter of w
CanGetBuffer(u, s, w) ==
    (th[u].pc = "idle" /\ ~leases[s].pool /\ ~Busy(s) /\ wstate[w] \in {"idle", "notified"})
        => ENABLED GetBuffer(u, s, w)
CanAddWaiter(u) == th[u].pc = "gb_add" => ENABLED GetBufferAddWaiter(u)
CanRelease(u, s) ==
    (th[u].pc = "idle" /\ leases[s].pool /\ ~Busy(s)) => ENABLED Release(u, s)
CanRemoveWaiter(u, w) ==
    (th[u].pc = "idle" /\ wstate[w] # "registering") => ENABLED RemoveWaiter(u, w)

Selects(t) == th[t].pc = "sig_begin" /\ th'[t].pc \in {"sig_call", "rel_end"}

\* the call of signal_availibility by thread t invokes a callback
Invokes(t) == th[t].pc = "sig_call" /\ th'[t].pc = "sig_cb"

LifoSelection(t) ==
    IF waiting_ # <<>>
    THEN /\ th'[t].popped = Back(waiting_)
         /\ waiting_' = PopBack(waiting_)
         /\ UNCHANGED <<waiting_handlers_, events>>
    ELSE IF waiting_handlers_ # <<>>
    THEN /\ events' = Append(events, PoolEvent(Back(waiting_handlers_)))
         /\ waiting_handlers_' = PopBack(waiting_handlers_)
         /\ UNCHANGED waiting_
    ELSE UNCHANGED <<waiting_, waiting_handlers_, events>>

\* C35: signal_availibility takes the last raw waiter off waiting_ and calls
\* that waiter's on_buffer_availability; with no raw waiter it posts the event
\* to the last handler and takes it off waiting_handlers_; every other
\* registration stays where it is.
C35_LifoStep ==
    \A t \in PoolThreads :
        /\ Selects(t) => LifoSelection(t)
        /\ Invokes(t) => th'[t].cb = th[t].popped

C35_SignalLifo == [][C35_LifoStep]_vars


\* a callback that runs is the callback of the waiter its thread took off
\* waiting_, and no call was made through a null active_signalling_
InvokedOwnWaiter ==
    /\ ~Crashed
    /\ \A t \in PoolThreads : InCallback(t) => th[t].cb = th[t].popped

\* the call is made while active_signalling_ still holds what the thread stored
CallThroughOwnPointer ==
    \A t \in PoolThreads :
        (th[t].pc = "sig_call" /\ th'[t].pc # "sig_call") =>
            active_signalling_ = th[t].popped

\* C37: with several threads in signal_availibility, each waiter taken off
\* waiting_ has its own on_buffer_availability invoked, once, by the thread
\* that took it, through an active_signalling_ that no other thread has
\* overwritten or cleared in between.
C37_ConcurrentSignals == []InvokedOwnWaiter /\ [][CallThroughOwnPointer]_vars


(***************************************************************************)
(* SpecCloseFair: SpecClose under a scheduler that lets every thread that  *)
(* can take a step take one eventually                                     *)
(***************************************************************************)
SignalSteps(t) ==
    SignalBegin(t) \/ SignalCall(t) \/ OnBufferAvailability(t) \/ SignalEnd(t)

ClientSteps ==
    \/ ClientDispatch \/ ClientGetBuffer \/ ClientAddBuffer \/ ClientFinalize
    \/ ClientAfterRelease
    \/ ReaderClose \/ ReaderCloseJoin \/ ReaderCloseRemove \/ ReaderCloseClear
    \/ WriterClose \/ WriterCloseJoin \/ WriterCloseClear
    \/ SignalSteps("client")

ReaderWorkerSteps ==
    \/ EntryStart \/ EntryLoop \/ GetBufferAddWaiter("rworker") \/ EntryWaitPool
    \/ EntryWake \/ EntryRead \/ EntryAfterRelease
    \/ SignalSteps("rworker")

WriterWorkerSteps ==
    \/ WriterEntryStart \/ WriterEntryLoop \/ WriterEntryWake \/ WriterEntryWrite
    \/ WriterEntryAfterErase
    \/ SignalSteps("wworker")

SpecCloseFair ==
    /\ SpecClose
    /\ WF_vars(ClientSteps)
    /\ WF_vars(ReaderWorkerSteps)
    /\ WF_vars(WriterWorkerSteps)

\* reader_base::close has been called and has not returned
InReaderClose == cl.pc \in {"rclose_join", "rclose_remove", "rclose_clear"}

\* C38: a call of close on the file reader returns, whatever the other
\* threads that release leases to the pool do meanwhile (a run that ends in
\* a call through a null active_signalling_ is left aside).
C38_CloseReturns == InReaderClose ~> (cl.pc = "reader_closed" \/ Crashed)

\* the reader's range lies within a source of known size, the sum taken
\* without wrap-around
RangeWithinSource ==
    /\ reader'.start_offset_ <= reader'.max_size_
    /\ reader'.start_offset_ + reader'.size_ <= reader'.max_size_

\* C39: when seek returns true on a reader whose max_size is known, the
\* reader's start_offset and start_offset + size_ are at most max_size.
C39_SeekWithinSource ==
    [][(Returned("seek") /\ cl'.ret.res = "true" /\ reader'.max_size_ # nosize)
           => RangeWithinSource]_vars

\* the constructors' seek fails, or the worker the range needs is not spawned
SeekOrSpawnFails(in) == ~SizedAndPositioned(in).ok

\* the file is valid and the range selected in it is empty
EmptyRangeSelected(in) ==
    in.valid /\ SizedAndPositioned(in).ok /\ SizedAndPositioned(in).r.size_ = 0

\* C36: the two constructors of file_reader leave the same reader for the
\* same file, offset and size; the reader's error flag is set exactly when
\* the file is invalid, the seek fails or a needed worker is not spawned; a
\* reader over an empty range of a valid file is not in error and its first
\* get_buffer returns ok with no lease.
C36_OverloadsAgree ==
    made.step \in {"made", "read"} =>
        /\ made.a = made.b
        /\ \A x \in {made.a, made.b} :
              /\ x.r.error_ <=> (~made.in.valid \/ SeekOrSpawnFails(made.in))
              /\ EmptyRangeSelected(made.in) => ~x.r.error_
        /\ (made.step = "read" /\ EmptyRangeSelected(made.in)) =>
              made.got = <<"ok", "ok">>

\* get_buffer has returned ok with no lease since the reader was positioned
EosReported == cl.eos > 0

\* the call returns ok with no lease and leaves the reader, the pool, the
\* event queue and every registration as they were
EosAgain ==
    /\ cl'.ret.res = "ok" /\ cl'.pc = "eos"
    /\ reader' = reader
    /\ UNCHANGED <<poolVars, wstate, leases, delivered>>

\* C40: once get_buffer has returned ok with no lease, each further
\* get_buffer returns ok with no lease again, registers no waiter, takes no
\* buffer from the pool and changes nothing in the reader.
C40_EosSticky == [][(EosReported /\ Returned("get_buffer")) => EosAgain]_vars

====
